---- MODULE Spec2Model ----
(***************************************************************************)
(* Model of the Ralph Loop controller of projectchimera:                   *)
(*   core/context_guard.py   ContextGuard                                  *)
(*   core/tools.py           Tools      (tool layer of WorkerAgent)        *)
(*   core/nemo_tools.py      RalphTools (tool layer of NeMoWorkerAgent)    *)
(*   agents/worker.py        WorkerAgent.execute_step / run_loop           *)
(*   agents/nemo_worker.py + docs/conventions.md                           *)
(*                           NeMoWorkerAgent.execute_step / run_loop       *)
(*   agents/planner.py, agents/nemo_planner.py   the planner loops         *)
(*                                                                         *)
(* Text is modelled as a sequence of tokens.  A token stands for a fixed   *)
(* piece of text; the string operations of the code (split, join, in,      *)
(* strip, startswith, replace, the regular expressions) are defined on     *)
(* token sequences by what they do on the text the tokens stand for.       *)
(***************************************************************************)
EXTENDS Integers, Sequences, FiniteSets, TLC

(***************************************************************************)
(* Tokens                                                                  *)
(***************************************************************************)
SP  == "SP"      \* one space
NL  == "NL"      \* "\n"
CB0 == "CB0"     \* "- [ ]"
CB1 == "CB1"     \* "- [x]"
HDR == "HDR"     \* "### Phase"
NUM == "NUM"     \* "1:"   (digits and a colon)
CMT == "CMT"     \* "(commit:"
PRF == "PRF"     \* "Proof:"
DSH == "DSH"     \* "-"
CBX == "CBX"     \* "- [X]": starts with "- [" but is neither "- [ ]" nor "- [x]"
GT  == "GT"      \* ">"
RP  == "RP"      \* ")"
ERRNF == "ERRNF" \* "Error: File not found: <path>"

(***************************************************************************)
(* String operations on token sequences                                    *)
(***************************************************************************)
\* s[i..] in Python: the suffix from 1-based position i
Drop(s, n) == SubSeq(s, n + 1, Len(s))

Take(s, n) == SubSeq(s, 1, n)

\* s.startswith(p)
StartsWith(s, p) == Len(p) <= Len(s) /\ Take(s, Len(p)) = p

\* sub in s
Contains(s, sub) ==
    \E i \in 0..(Len(s) - Len(sub)) : SubSeq(s, i + 1, i + Len(sub)) = sub

\* s.count(sub) for a one-token sub
CountTok(s, t) == Cardinality({i \in 1..Len(s) : s[i] = t})

\* number of leading spaces: len(s) - len(s.lstrip())
RECURSIVE LeadingSpaces(_)
LeadingSpaces(s) ==
    IF s = <<>> \/ Head(s) # SP THEN 0 ELSE 1 + LeadingSpaces(Tail(s))

LStrip(s) == Drop(s, LeadingSpaces(s))

RECURSIVE RStrip(_)
RStrip(s) ==
    IF s = <<>> \/ s[Len(s)] # SP THEN s ELSE RStrip(Take(s, Len(s) - 1))

Strip(s) == RStrip(LStrip(s))

Spaces(n) == [i \in 1..n |-> SP]

\* s.replace(old, new, 1) for one-token old and new
ReplaceFirstTok(s, old, new) ==
    IF \E i \in 1..Len(s) : s[i] = old
    THEN LET k == CHOOSE i \in 1..Len(s) :
                      s[i] = old /\ \A j \in 1..(i - 1) : s[j] # old
         IN  [s EXCEPT ![k] = new]
    ELSE s

\* s.find(sub): the 0-based position of the leftmost occurrence, -1 for none
Find(s, sub) ==
    IF Contains(s, sub)
    THEN CHOOSE i \in 0..(Len(s) - Len(sub)) :
             /\ SubSeq(s, i + 1, i + Len(sub)) = sub
             /\ \A j \in 0..(i - 1) : SubSeq(s, j + 1, j + Len(sub)) # sub
    ELSE -1

\* s.count(sub) for a non-empty sub: the occurrences are counted from the
\* left and the scan resumes after the end of each one
RECURSIVE Count(_, _)
Count(s, sub) ==
    IF Find(s, sub) = -1 THEN 0
    ELSE 1 + Count(Drop(s, Find(s, sub) + Len(sub)), sub)

\* s.replace(old, new, 1) for a non-empty old
ReplaceFirst(s, old, new) ==
    IF Find(s, old) = -1 THEN s
    ELSE Take(s, Find(s, old)) \o new \o Drop(s, Find(s, old) + Len(old))

\* content.split("\n")
RECURSIVE Split(_)
Split(content) ==
    IF \A i \in 1..Len(content) : content[i] # NL
    THEN <<content>>
    ELSE LET k == CHOOSE i \in 1..Len(content) :
                      content[i] = NL /\ \A j \in 1..(i - 1) : content[j] # NL
         IN  <<Take(content, k - 1)>> \o Split(Drop(content, k))

\* "\n".join(lines)
RECURSIVE Join(_)
Join(lines) ==
    IF lines = <<>> THEN <<>>
    ELSE IF Len(lines) = 1 THEN lines[1]
    ELSE lines[1] \o <<NL>> \o Join(Tail(lines))

\* lines.insert(idx, x) with a 0-based idx <= len(lines)
InsertAt(lines, idx, x) == Take(lines, idx) \o <<x>> \o Drop(lines, idx)

(***************************************************************************)
(* Checklist Store: Tools.parse_checklist (core/tools.py)                  *)
(***************************************************************************)
\* line.strip().startswith("- [")
IsCheckboxLine(line) ==
    Strip(line) # <<>> /\ Head(Strip(line)) \in {CB0, CB1, CBX}

\* re.match(r"###\s+Phase\s+(\d+):\s+(.+)", line) is not None
PhaseMatch(line) ==
    /\ StartsWith(line, <<HDR, SP>>)
    /\ LET a == LStrip(Tail(line))
       IN  /\ StartsWith(a, <<NUM, SP>>)
           /\ Len(a) >= 3

\* group(2) of the phase pattern: \s+ is greedy and gives back one space when
\* nothing else is left for (.+)
PhaseName(line) ==
    LET b == LStrip(Tail(LStrip(Tail(line))))
    IN  IF b = <<>> THEN <<SP>> ELSE b

\* re.match(r"^(\s*)- \[([ x])\]\s+(.+)", line) is not None
TaskMatch(line) ==
    LET a == LStrip(line)
    IN  /\ a # <<>>
        /\ Head(a) \in {CB0, CB1}
        /\ Len(a) >= 3
        /\ a[2] = SP

\* group(3) of the task pattern
TaskDescription(line) ==
    LET b == LStrip(Tail(LStrip(line)))
    IN  IF b = <<>> THEN <<SP>> ELSE b

\* the task dict built at tools.py:242-247; i is the 0-based line index
MakeTask(line, i) ==
    [description |-> TaskDescription(line),
     is_complete |-> Head(LStrip(line)) = CB1,
     indent      |-> LeadingSpaces(line),
     line_number |-> i]

\* the phase dict built at tools.py:224-232
MakePhase(lines, i) ==
    [name        |-> PhaseName(lines[i + 1]),
     description |-> IF i + 1 < Len(lines) /\ StartsWith(lines[i + 2], <<GT>>)
                     THEN Strip(Tail(lines[i + 2])) ELSE <<>>,
     tasks       |-> <<>>]

\* The loop body of parse_checklist for line i (0-based).  Phase dicts are
\* objects: `phases` holds references (indices into objs), and current_phase
\* (cur, 0 for None) is a reference too, so a task appended to current_phase
\* shows in every place of `phases` that refers to it.
ParseLine(st, lines, i) ==
    LET line == lines[i + 1]
    IN  IF StartsWith(line, <<HDR>>)
        THEN LET ph == IF st.cur # 0 THEN Append(st.phases, st.cur) ELSE st.phases
             IN  IF PhaseMatch(line)
                 THEN [phases |-> ph,
                       objs   |-> Append(st.objs, MakePhase(lines, i)),
                       cur    |-> Len(st.objs) + 1]
                 ELSE [st EXCEPT !.phases = ph]
        ELSE IF IsCheckboxLine(line) /\ TaskMatch(line) /\ st.cur # 0
        THEN [st EXCEPT !.objs[st.cur].tasks = Append(@, MakeTask(line, i))]
        ELSE st

RECURSIVE ParseLines(_, _, _)
ParseLines(st, lines, i) ==
    IF i >= Len(lines) THEN st
    ELSE ParseLines(ParseLine(st, lines, i), lines, i + 1)

\* the "phases" list parse_checklist returns for a file content
ParsePhases(content) ==
    LET lines == Split(content)
        st    == ParseLines([phases |-> <<>>, objs |-> <<>>, cur |-> 0], lines, 0)
        refs  == IF st.cur # 0 THEN Append(st.phases, st.cur) ELSE st.phases
    IN  [k \in 1..Len(refs) |-> st.objs[refs[k]]]

\* all tasks of the returned phases, in the order the loops visit them
RECURSIVE AllTasks(_)
AllTasks(phases) ==
    IF phases = <<>> THEN <<>>
    ELSE Head(phases).tasks \o AllTasks(Tail(phases))

NoTask == [description |-> <<>>, line_number |-> -1]

\* next_task without the test of the indentation
NextTaskAnyIndent(content) ==
    LET ts == AllTasks(ParsePhases(content))
        open == {k \in 1..Len(ts) : ~ts[k].is_complete}
    IN  IF open = {} THEN NoTask
        ELSE LET k == CHOOSE k \in open : \A j \in open : k <= j
             IN  [description |-> ts[k].description, line_number |-> ts[k].line_number]

\* the "next_task" parse_checklist returns (NoTask for None)
NextTask(content) ==
    LET ts == AllTasks(ParsePhases(content))
        open == {k \in 1..Len(ts) : ~ts[k].is_complete /\ ts[k].indent = 0}
    IN  IF open = {} THEN NoTask
        ELSE LET k == CHOOSE k \in open : \A j \in open : k <= j
             IN  [description |-> ts[k].description, line_number |-> ts[k].line_number]

\* Tools.check_all_tasks_complete on a file content
CheckAllTasksComplete(content) ==
    LET ts == AllTasks(ParsePhases(content))
    IN  \A k \in 1..Len(ts) : ts[k].is_complete

\* NeMoWorkerAgent._all_tasks_complete on a checklist text
NemoAllTasksComplete(content) ==
    LET lines == Split(content)
    IN  ~ \E i \in 1..Len(lines) : StartsWith(Strip(lines[i]), <<CB0>>)

(***************************************************************************)
(* Checklist Store: update_checklist of both tool layers                   *)
(***************************************************************************)
\* a faulty version that appends the commit suffix whenever a reference is
\* supplied, also to a line that has one
MarkedLineAlwaysCommit(line, commit_sha) ==
    LET t == ReplaceFirstTok(line, CB0, CB1)
    IN  IF commit_sha # <<>>
        THEN RStrip(t) \o <<SP, CMT, SP>> \o commit_sha \o <<RP>>
        ELSE t

\* task_line after the "- [ ]" -> "- [x]" replacement and the commit suffix
MarkedLine(line, commit_sha) ==
    LET t == ReplaceFirstTok(line, CB0, CB1)
    IN  IF commit_sha # <<>> /\ ~Contains(t, <<CMT>>)
        THEN RStrip(t) \o <<SP, CMT, SP>> \o commit_sha \o <<RP>>
        ELSE t

\* " " * (indent + 2) + f"- Proof: {proof}"
ProofLine(task_line, proof) ==
    Spaces(LeadingSpaces(task_line) + 2) \o <<DSH, SP, PRF, SP>> \o proof

\* replace the line below the task when it contains "Proof:", insert otherwise;
\* idx is the 0-based index of the task line
PutProof(lines, idx, proof_line) ==
    IF idx + 1 < Len(lines) /\ Contains(lines[idx + 2], <<PRF>>)
    THEN [lines EXCEPT ![idx + 2] = proof_line]
    ELSE InsertAt(lines, idx + 1, proof_line)

\* Tools.update_checklist: the line the search loop stops at (0-based, -1 for None)
ToolsFindTask(lines, task_description) ==
    LET hits == {i \in 1..Len(lines) :
                    Contains(lines[i], task_description) /\ IsCheckboxLine(lines[i])}
    IN  IF hits = {} THEN -1
        ELSE (CHOOSE i \in hits : \A j \in hits : i <= j) - 1

\* Tools.update_checklist(path, task_description, True, proof, commit_sha) on
\* a file content; found = FALSE is the ValueError("Task not found")
ToolsUpdateChecklist(content, task_description, proof, commit_sha) ==
    LET lines == Split(content)
        idx   == ToolsFindTask(lines, task_description)
    IN  IF idx = -1 THEN [found |-> FALSE, content |-> content]
        ELSE LET task_line == MarkedLine(lines[idx + 1], commit_sha)
                 marked    == [lines EXCEPT ![idx + 1] = task_line]
                 out       == IF proof # <<>>
                              THEN PutProof(marked, idx, ProofLine(task_line, proof))
                              ELSE marked
             IN  [found |-> TRUE, content |-> Join(out)]

\* RalphTools.update_checklist: the line the search loop stops at
RalphFindTask(lines, task_description) ==
    LET hits == {i \in 1..Len(lines) :
                    Contains(lines[i], task_description) /\ Contains(lines[i], <<CB0>>)}
    IN  IF hits = {} THEN -1
        ELSE (CHOOSE i \in hits : \A j \in hits : i <= j) - 1

\* RalphTools.update_checklist(path, task_description, proof, commit_sha) on a
\* file content; found = FALSE is the "Error: Task not found" return
RalphUpdateChecklist(content, task_description, proof, commit_sha) ==
    LET lines == Split(content)
        idx   == RalphFindTask(lines, task_description)
    IN  IF idx = -1 THEN [found |-> FALSE, content |-> content]
        ELSE LET task_line == MarkedLine(lines[idx + 1], commit_sha)
                 marked    == [lines EXCEPT ![idx + 1] = task_line]
             IN  [found   |-> TRUE,
                  content |-> Join(PutProof(marked, idx, ProofLine(task_line, proof)))]

(***************************************************************************)
(* Bounds of the model                                                     *)
(***************************************************************************)
\* the cap of execute_step's tool loop (max_iterations = 1000 at
\* worker.py:291, max_tool_iterations = 1000 at conventions.md:21), scaled
MaxToolIterations == 2

\* the largest max_iterations run_loop is started with
MaxSessions == 2

\* the longest checklist document, in lines, the checklist specification
\* builds from the catalogue of lines
MaxLines == 2

\* the number of update_checklist calls the checklist specification makes
MaxUpdates == 2

\* the cap of the planner's tool loop (max_iterations = 10 at planner.py:131
\* and nemo_planner.py:69), scaled
MaxPlannerIterations == 2

\* the sandbox operations on their own: the longest file text, in characters,
\* and the number of operations applied in a row
MaxChars == 3

MaxCalls == 1

\* the context guard on its own: the number of add_tokens calls, and of
\* reset calls, applied to one guard
MaxAdds == 3

(***************************************************************************)
(* State                                                                   *)
(***************************************************************************)
VARIABLES
    agent,          \* "claude" (WorkerAgent) or "nemo" (NeMoWorkerAgent)
    pc,             \* position of the single thread of control
    max_iterations, \* run_loop's argument
    iteration,      \* run_loop's counter
    tool_iteration, \* execute_step's loop counter
    current_tokens, \* ContextGuard.current_tokens
    rotation_count, \* NeMoWorkerAgent.rotation_count
    history,        \* WorkerAgent.conversation_history / execute_step's messages
    ws,             \* the workspace: path -> [exists, text]
    response,       \* the last response of the LLM gateway
    pending,        \* the tool calls of `response` not yet executed
    tool_results,   \* the results of the tool calls of `response` so far
    result,         \* the dict the last execute_step returned
    summary,        \* the dict run_loop returned
    checklist_created, \* the planner's flag of the same name
    model_calls,    \* history variable: gateway calls made by the current session
    sessions,       \* history variable: execute_step calls started
    guard_resets,   \* history variable: ContextGuard.reset() calls
    ws_at_response, \* history variable: the workspace when `response` arrived
    guard,          \* the ContextGuard: its configuration and threshold_tokens
    tokens_used     \* history variable: the tokens of every model call of the run

vars == <<agent, pc, max_iterations, iteration, tool_iteration, current_tokens,
          rotation_count, history, ws, response, pending, tool_results, result,
          summary, checklist_created, model_calls, sessions, guard_resets,
          ws_at_response, guard, tokens_used>>

(***************************************************************************)
(* Context Guard (core/context_guard.py)                                   *)
(***************************************************************************)
\* the defaults of ContextGuard.__init__
max_context == 1000000

threshold_percentage == 10

\* the configurations of the model, as (max_context, threshold_percentage):
\* run_worker builds the guard from the values of the configuration file
Configs == {<<1000000, 10>>, <<200000, 29>>, <<200000, 30>>, <<128000, 10>>}

\* int(max_context * (threshold_percentage / 100.0)) is computed in double
\* arithmetic: the quotient is the double nearest to tp/100, the product is
\* rounded again, and int() drops the fraction.  For the configuration below
\* the product is the double just under the integer mc*tp/100 (29/100.0 is
\* 0.28999999999999998 and 200000 times it is 57999.99999999999), so the
\* result is one less; for the other configurations of the model it is the
\* integer itself.
TruncatedBelow == {<<200000, 29>>}

ThresholdTokens(mc, tp) ==
    IF <<mc, tp>> \in TruncatedBelow
    THEN (mc * tp) \div 100 - 1
    ELSE (mc * tp) \div 100

\* ContextGuard.__init__
ContextGuard(tp, mc) ==
    [threshold_percentage |-> tp, max_context |-> mc,
     threshold_tokens |-> ThresholdTokens(mc, tp)]

threshold_tokens == guard.threshold_tokens

\* ContextGuard.should_rotate for a token count
ShouldRotate(tokens) == tokens >= threshold_tokens

\* add_tokens that overwrites the count instead of adding to it
AddTokensOverwrite(tokens, n) == n

\* ContextGuard.add_tokens
AddTokens(tokens, n) == tokens + n

\* the percentage taken of max_context instead of the threshold
GetUsagePercentageOfMax(tokens) ==
    [num |-> tokens * 100, den |-> guard.max_context]

\* ContextGuard.get_usage_percentage: (current_tokens / threshold_tokens) *
\* 100.0, a double, kept as the fraction num / den it rounds.  For token
\* counts below 2^53 the quotient of a count below the threshold is a double
\* below 1 and its product with 100.0 a double below 100, so comparing the
\* fraction with 100 gives what comparing the double gives.
GetUsagePercentage(tokens) ==
    [num |-> tokens * 100, den |-> threshold_tokens]

(***************************************************************************)
(* Workspace Sandbox                                                       *)
(***************************************************************************)
\* Paths a tool call may name: the checklist, another file of the workspace,
\* two paths that resolve outside the workspace root, and a path into a
\* sibling directory of the root.
PlanPath == "instructions/plan.md"
NotePath == "notes.txt"
OutsidePath == "../outside.txt"
OutsidePlanPath == "../instructions/plan.md"
SiblingPath == "../w2/notes.txt"

\* Tools.workspace_dir, an absolute path as the list of its components; a
\* component is the list of its characters.  The root is /r/w.
workspace_dir == << <<"r">>, <<"w">> >>

\* the path component ".."
UP == <<".", ".">>

\* the components of the requested paths, names shortened to one character
\* except the sibling directory w2, whose name starts with the root's name
Segments(path) ==
    CASE path = PlanPath        -> << <<"i">>, <<"p">> >>
      [] path = NotePath        -> << <<"n">> >>
      [] path = OutsidePath     -> << UP, <<"o">> >>
      [] path = OutsidePlanPath -> << UP, <<"i">>, <<"p">> >>
      [] path = SiblingPath     -> << UP, <<"w", "2">>, <<"n">> >>

\* (base / path).resolve(): ".." components are folded away
RECURSIVE Resolve(_, _)
Resolve(base, segs) ==
    IF segs = <<>> THEN base
    ELSE IF Head(segs) = UP
         THEN Resolve(IF base = <<>> THEN <<>> ELSE Take(base, Len(base) - 1),
                      Tail(segs))
         ELSE Resolve(Append(base, Head(segs)), Tail(segs))

\* str(path) of an absolute path
RECURSIVE PathStr(_)
PathStr(p) ==
    IF p = <<>> THEN <<>> ELSE <<"/">> \o Head(p) \o PathStr(Tail(p))

NoFile == [exists |-> FALSE, text |-> <<>>]

File(text) == [exists |-> TRUE, text |-> text]

\* _resolve_path raises ValueError:
\* not str(resolved).startswith(str(self.workspace_dir))
Outside(path) ==
    ~StartsWith(PathStr(Resolve(workspace_dir, Segments(path))),
                PathStr(workspace_dir))

\* Outcome of an operation: the workspace after it, the returned string and
\* the exception raised ("" for none).
Returned(w, text) == [ws |-> w, result |-> text, raised |-> ""]

Raised(w, exc) == [ws |-> w, result |-> <<>>, raised |-> exc]

\* Tools.read_file
ToolsReadFile(w, path) ==
    IF Outside(path) THEN Raised(w, "ValueError")
    ELSE IF ~w[path].exists THEN Raised(w, "FileNotFoundError")
    ELSE Returned(w, w[path].text)

\* Tools.write_file
ToolsWriteFile(w, path, content) ==
    IF Outside(path) THEN Raised(w, "ValueError")
    ELSE Returned([w EXCEPT ![path] = File(content)], <<"File written">>)

\* an editor whose create writes the file whether or not it exists
ToolsStrReplaceEditorClobbers(w, command, path, old_str, new_str) ==
    IF Outside(path) THEN Raised(w, "ValueError")
    ELSE Returned([w EXCEPT ![path] = File(new_str)], <<"File created">>)

\* Tools.str_replace_editor
ToolsStrReplaceEditor(w, command, path, old_str, new_str) ==
    IF Outside(path) THEN Raised(w, "ValueError")
    ELSE IF command = "create"
    THEN IF w[path].exists THEN Returned(w, <<"Error: File already exists">>)
         ELSE Returned([w EXCEPT ![path] = File(new_str)], <<"File created">>)
    ELSE IF command = "str_replace"
    THEN IF ~w[path].exists THEN Returned(w, <<"Error: File not found">>)
         ELSE IF old_str = <<>> THEN Returned(w, <<"Error: old_str is required">>)
         ELSE IF ~Contains(w[path].text, old_str)
              THEN Returned(w, <<"Error: old_str not found">>)
         ELSE IF Count(w[path].text, old_str) > 1
              THEN Returned(w, <<"Error: old_str appears",
                                 Count(w[path].text, old_str), "times">>)
         ELSE Returned([w EXCEPT ![path] =
                            File(ReplaceFirst(w[path].text, old_str, new_str))],
                       <<"File edited">>)
    ELSE Returned(w, <<"Error: Unknown command">>)

\* Tools.append_file
ToolsAppendFile(w, path, content) ==
    IF Outside(path) THEN Raised(w, "ValueError")
    ELSE IF ~w[path].exists THEN Raised(w, "FileNotFoundError")
    ELSE Returned([w EXCEPT ![path] = File(w[path].text \o content)],
                  <<"Content appended">>)

\* Tools.update_checklist as a file operation
ToolsUpdateChecklistFile(w, path, task_description, proof, commit_sha) ==
    LET rd == ToolsReadFile(w, path)
    IN  IF rd.raised # "" THEN rd
        ELSE LET u == ToolsUpdateChecklist(rd.result, task_description, proof, commit_sha)
             IN  IF ~u.found THEN Raised(w, "ValueError")
                 ELSE Returned([w EXCEPT ![path] = File(u.content)],
                               <<"Checklist updated">>)

\* RalphTools.read_file
RalphReadFile(w, path) ==
    IF Outside(path) THEN Raised(w, "ValueError")
    ELSE IF ~w[path].exists THEN Returned(w, <<ERRNF>>)
    ELSE Returned(w, w[path].text)

\* RalphTools.write_file
RalphWriteFile(w, path, content) ==
    IF Outside(path) THEN Raised(w, "ValueError")
    ELSE Returned([w EXCEPT ![path] = File(content)], <<"File written">>)

\* RalphTools.str_replace_editor
RalphStrReplaceEditor(w, command, path, old_str, new_str) ==
    IF Outside(path) THEN Raised(w, "ValueError")
    ELSE IF command = "create"
    THEN IF w[path].exists THEN Returned(w, <<"Error: File already exists">>)
         ELSE Returned([w EXCEPT ![path] = File(new_str)], <<"File created">>)
    ELSE IF command = "str_replace"
    THEN IF ~w[path].exists THEN Returned(w, <<"Error: File not found">>)
         ELSE IF old_str = <<>> THEN Returned(w, <<"Error: old_str is required">>)
         ELSE IF ~Contains(w[path].text, old_str)
              THEN Returned(w, <<"Error: old_str not found">>)
         ELSE IF Count(w[path].text, old_str) > 1
              THEN Returned(w, <<"Error: old_str appears",
                                 Count(w[path].text, old_str), "times">>)
         ELSE Returned([w EXCEPT ![path] =
                            File(ReplaceFirst(w[path].text, old_str, new_str))],
                       <<"File edited">>)
    ELSE Returned(w, <<"Error: Unknown command">>)

\* RalphTools.update_checklist as a file operation: every exception is
\* caught and returned as text
RalphUpdateChecklistFile(w, path, task_description, proof, commit_sha) ==
    IF Outside(path) \/ ~w[path].exists
    THEN Returned(w, <<"Error updating checklist">>)
    ELSE LET u == RalphUpdateChecklist(w[path].text, task_description, proof, commit_sha)
         IN  IF ~u.found THEN Returned(w, <<"Error: Task not found">>)
             ELSE Returned([w EXCEPT ![path] = File(u.content)],
                           <<"Checklist updated">>)

(***************************************************************************)
(* Version control: git_commit (core/tools.py, core/nemo_tools.py)         *)
(***************************************************************************)
\* Python's None
Null == "null"

\* how `git commit` may end: a commit is made, git refuses (nothing to commit,
\* no repository), or run_command gives up after its 30 seconds
CommitOutcomes == {"committed", "refused", "timeout"}

\* how `git rev-parse --short HEAD` may end
RevParseOutcomes == {"printed", "failed"}

\* the short commit id that rev-parse prints
ShortSha == "abc1234"

\* a git_commit that reads the commit id whether or not the commit was made
GitCommitShaAlways(commit, rev_parse) ==
    [success |-> commit = "committed",
     sha     |-> IF rev_parse = "printed" THEN ShortSha ELSE Null]

\* git_commit of both tool layers, given how its two git commands end: the
\* id is looked up only after a successful commit and kept only when the
\* lookup succeeds (the message echoed back in the result is left out)
GitCommit(commit, rev_parse) ==
    [success |-> commit = "committed",
     sha     |-> IF commit = "committed" /\ rev_parse = "printed"
                 THEN ShortSha ELSE Null]

(***************************************************************************)
(* Tool Executor                                                           *)
(***************************************************************************)
\* the tool names listed by the unknown-tool error of both tool layers
available_tools ==
    <<"read_file", "write_file", "str_replace_editor", "run_command",
      "git_commit", "update_checklist">>

\* the unknown-tool error without the list of names
UnknownToolNoList(tool_name) == <<"Error: Unknown tool", tool_name>>

\* f"Error: Unknown tool '{tool_name}'. Available tools: {', '.join(available_tools)}"
UnknownTool(tool_name) ==
    <<"Error: Unknown tool", tool_name, "Available tools:">> \o available_tools

\* run_command and git_commit run a shell command and return its outcome,
\* a time-out included, as JSON text; the commands of the model leave the
\* files of the workspace alone
CommandResult == <<"JSON">>

\* WorkerAgent.execute_tool: the dispatch, inside try / except Exception
WorkerExecuteTool(w, call) ==
    LET o == CASE call.name = "read_file" -> ToolsReadFile(w, call.path)
               [] call.name = "write_file" -> ToolsWriteFile(w, call.path, call.text)
               [] call.name = "str_replace_editor" ->
                      ToolsStrReplaceEditor(w, call.command, call.path,
                                            call.old_str, call.new_str)
               [] call.name = "update_checklist" ->
                      ToolsUpdateChecklistFile(w, call.path, call.desc, call.proof, call.sha)
               [] call.name \in {"run_command", "git_commit"} ->
                      Returned(w, CommandResult)
               [] OTHER -> Returned(w, UnknownTool(call.name))
    IN  IF o.raised # "" THEN Returned(o.ws, <<"Error executing">>) ELSE o

\* RalphTools.execute_tool: the dispatch, no exception handler
RalphExecuteTool(w, call) ==
    CASE call.name = "read_file" -> RalphReadFile(w, call.path)
      [] call.name = "write_file" -> RalphWriteFile(w, call.path, call.text)
      [] call.name = "str_replace_editor" ->
             RalphStrReplaceEditor(w, call.command, call.path,
                                   call.old_str, call.new_str)
      [] call.name = "update_checklist" ->
             RalphUpdateChecklistFile(w, call.path, call.desc, call.proof, call.sha)
      [] call.name \in {"run_command", "git_commit"} -> Returned(w, CommandResult)
      [] OTHER -> Returned(w, UnknownTool(call.name))

\* the tool layer of each worker
ExecuteTool(a, w, call) ==
    IF a = "claude" THEN WorkerExecuteTool(w, call) ELSE RalphExecuteTool(w, call)

(***************************************************************************)
(* LLM Gateway: the responses the model may give                           *)
(***************************************************************************)
Call(id, name, path, text, desc, proof, sha) ==
    [id |-> id, name |-> name, path |-> path, text |-> text,
     desc |-> desc, proof |-> proof, sha |-> sha,
     command |-> "", old_str |-> <<>>, new_str |-> <<>>]

\* a str_replace_editor call
CallEdit(id, command, path, old_str, new_str) ==
    [Call(id, "str_replace_editor", path, <<>>, <<>>, <<>>, <<>>)
        EXCEPT !.command = command, !.old_str = old_str, !.new_str = new_str]

CallUpdate(id) ==
    Call(id, "update_checklist", PlanPath, <<>>, <<"a">>, <<"p">>, <<"s">>)

CallWrite(id) == Call(id, "write_file", NotePath, <<"v">>, <<>>, <<>>, <<>>)

CallRead(id) == Call(id, "read_file", NotePath, <<>>, <<>>, <<>>, <<>>)

CallReadOutside(id) == Call(id, "read_file", OutsidePath, <<>>, <<>>, <<>>, <<>>)

CallUnknown(id) == Call(id, "list_directory", NotePath, <<>>, <<>>, <<>>, <<>>)

CallCommand(id) == Call(id, "run_command", NotePath, <<>>, <<>>, <<>>, <<>>)

\* str_replace on the checklist: "- [ ]" occurs twice in the checklist a run
\* usually starts from, "z" occurs in none
CallEditAmbiguous(id) == CallEdit(id, "str_replace", PlanPath, <<CB0>>, <<CB1>>)

CallEditAbsent(id) == CallEdit(id, "str_replace", PlanPath, <<"z">>, <<>>)

\* the tool_uses lists a response may carry
ToolUses ==
    { <<CallUpdate("t1")>>,
      <<CallEditAmbiguous("t1"), CallEditAbsent("t2")>>,
      <<CallCommand("t1")>>,
      <<CallWrite("t1"), CallRead("t2")>>,
      <<CallRead("t1"), CallUpdate("t2")>>,
      <<CallUnknown("t1"), CallWrite("t2")>>,
      <<CallReadOutside("t1"), CallWrite("t2")>> }

\* input_tokens + output_tokens of one call
TokenCounts == {50000, 100000}

Responses ==
    { [complete |-> c, gutter |-> g, tool_uses |-> t,
       stop_reason |-> IF t # <<>> THEN "tool_use" ELSE sr, tokens |-> n] :
        c \in BOOLEAN, g \in BOOLEAN, t \in ToolUses \cup {<<>>},
        sr \in {"end_turn", "max_tokens"}, n \in TokenCounts }

NoResponse ==
    [complete |-> FALSE, gutter |-> FALSE, tool_uses |-> <<>>,
     stop_reason |-> "none", tokens |-> 0]

(***************************************************************************)
(* Loop Controller: execute_step                                           *)
(***************************************************************************)
StepResult(success, action, should_continue, message) ==
    [success |-> success, action |-> action,
     should_continue |-> should_continue, message |-> message]

NoResult == StepResult(FALSE, "none", FALSE, "")

ResultAlreadyComplete == StepResult(TRUE, "complete", FALSE, "<ralph>COMPLETE</ralph>")

ResultSignalComplete == StepResult(TRUE, "complete", FALSE, "Worker signaled completion")

ResultGutter == StepResult(FALSE, "gutter", FALSE, "Worker is stuck (gutter signal)")

ResultAllComplete == StepResult(TRUE, "complete", FALSE, "All tasks complete")

ResultContinue(should_continue) ==
    StepResult(TRUE, "continue", should_continue, "Step completed")

ResultException == StepResult(FALSE, "error", FALSE, "Error: exception")

ResultMaxIterations == StepResult(FALSE, "error", FALSE, "Max tool iterations reached")

\* turns of the conversation; the text of a turn is not kept
Turn(role, kind, ids) == [role |-> role, kind |-> kind, ids |-> ids]

Ids(calls) == [k \in 1..Len(calls) |-> calls[k].id]

ResultIds(results) == [k \in 1..Len(results) |-> results[k].tool_use_id]

\* a faulty if-chain that runs the tool calls of a response before it looks
\* for the markers
ClassifyToolsFirst(resp) ==
    IF resp.tool_uses # <<>> THEN "tools"
    ELSE IF resp.complete THEN "complete"
    ELSE IF resp.gutter THEN "gutter"
    ELSE "text"

\* WorkerAgent.execute_step: what the if-chain does with a response
WorkerClassify(resp) ==
    IF resp.complete THEN "complete"
    ELSE IF resp.gutter THEN "gutter"
    ELSE IF resp.tool_uses # <<>> THEN "tools"
    ELSE "text"

\* a faulty if-chain that looks for the stuck marker before the completion
\* marker
ClassifyGutterFirst(resp) ==
    IF resp.gutter THEN "gutter"
    ELSE IF resp.complete THEN "complete"
    ELSE IF resp.tool_uses # <<>> THEN "tools"
    ELSE "text"

\* NeMoWorkerAgent.execute_step: what the if-chain does with a response
NemoClassify(resp) ==
    IF resp.complete THEN "complete"
    ELSE IF resp.gutter THEN "gutter"
    ELSE IF resp.tool_uses # <<>> THEN "tools"
    ELSE "text"

Classify(a, resp) == IF a = "claude" THEN WorkerClassify(resp) ELSE NemoClassify(resp)

\* a faulty loop test that lets one pass too many through
ToolLoopTestOffByOne(ti) == IF ti <= MaxToolIterations THEN "chat" ELSE "step_returned"

\* the `while iteration < max_iterations` test of the tool loop, reached by
\* `continue` or by falling through the loop body: "chat" when the loop goes
\* on, "step_returned" when execute_step returns ResultMaxIterations
ToolLoopTest(ti) == IF ti < MaxToolIterations THEN "chat" ELSE "step_returned"

\* a faulty `for` loop that takes the calls from the end of the list
NextCallFromEnd(calls) == calls[Len(calls)]

\* the call the `for` loop over the tool calls executes next
NextCall(calls) == Head(calls)

\* a summary that counts the rotation in progress before it has happened
RunSummaryCountsAhead(a, it, tokens, res, rot) ==
    [iterations   |-> it,
     total_tokens |-> tokens,
     completed    |-> it < max_iterations /\ res.action = "complete",
     rotations    |-> IF a = "nemo" THEN rot + 1 ELSE -1]

\* the dict run_loop returns
RunSummary(a, it, tokens, res, rot) ==
    [iterations   |-> it,
     total_tokens |-> tokens,
     completed    |-> it < max_iterations /\ res.action = "complete",
     rotations    |-> IF a = "nemo" THEN rot ELSE -1]

NoSummary == [iterations |-> -1, total_tokens |-> -1, completed |-> FALSE, rotations |-> -1]

\* a loop head whose execute_step goes to the model without looking at the
\* checklist first
LoopHeadNoCompleteCheck(a, it, tokens, hist, res, rot, w) ==
    IF it >= max_iterations
    THEN [pc |-> "finished", iteration |-> it, history |-> hist, result |-> res,
          started |-> 0, summary |-> RunSummary(a, it, tokens, res, rot)]
    ELSE [pc |-> "chat", iteration |-> it + 1,
          history |-> IF hist = <<>> \/ a = "nemo"
                      THEN <<Turn("user", "prompt", <<>>)>> ELSE hist,
          result |-> res, started |-> 1, summary |-> NoSummary]

\* The head of run_loop's while loop and, when the loop goes on, execute_step
\* up to its first gateway call.  hist is the conversation and res the last
\* result when the head is reached.
LoopHead(a, it, tokens, hist, res, rot, w) ==
    IF it >= max_iterations
    THEN [pc |-> "finished", iteration |-> it, history |-> hist, result |-> res,
          started |-> 0, summary |-> RunSummary(a, it, tokens, res, rot)]
    ELSE IF a = "claude"
    THEN IF ~w[PlanPath].exists
         THEN [pc |-> "crashed", iteration |-> it + 1, history |-> hist, result |-> res,
               started |-> 1, summary |-> NoSummary]
         ELSE IF CheckAllTasksComplete(w[PlanPath].text)
         THEN [pc |-> "step_returned", iteration |-> it + 1, history |-> hist,
               result |-> ResultAlreadyComplete, started |-> 1, summary |-> NoSummary]
         ELSE [pc |-> "chat", iteration |-> it + 1,
               history |-> IF hist = <<>> THEN <<Turn("user", "prompt", <<>>)>> ELSE hist,
               result |-> res, started |-> 1, summary |-> NoSummary]
    ELSE IF NemoAllTasksComplete(RalphReadFile(w, PlanPath).result)
         THEN [pc |-> "step_returned", iteration |-> it + 1, history |-> hist,
               result |-> ResultAlreadyComplete, started |-> 1, summary |-> NoSummary]
         ELSE [pc |-> "chat", iteration |-> it + 1,
               history |-> <<Turn("user", "prompt", <<>>)>>,
               result |-> res, started |-> 1, summary |-> NoSummary]

(***************************************************************************)
(* Checklist documents a run may start from                                *)
(***************************************************************************)
HeaderLine == <<HDR, SP, NUM, SP, "w">>

\* ### Phase 1: w / - [ ] a / - [ ] a b
DocOpen == Join(<<HeaderLine, <<CB0, SP, "a">>, <<CB0, SP, "a", "b">>>>)

\* ### Phase 1: w / - [x] a / (two spaces) - [ ] a
DocSubOpen == Join(<<HeaderLine, <<CB1, SP, "a">>, <<SP, SP, CB0, SP, "a">>>>)

\* ### Phase 1: w / - [x] a
DocDone == Join(<<HeaderLine, <<CB1, SP, "a">>>>)

\* - [ ] a     (no phase header)
DocNoHeader == <<CB0, SP, "a">>

InitDocs == {DocOpen, DocSubOpen, DocDone, DocNoHeader}

InitWorkspaces ==
    { [q \in {PlanPath, NotePath} |-> IF q = PlanPath THEN plan ELSE NoFile] :
        plan \in {File(d) : d \in InitDocs} \cup {NoFile} }

(***************************************************************************)
(* Loop Controller: the worker run                                         *)
(***************************************************************************)
InitWorker ==
    /\ tokens_used = 0
    /\ guard = ContextGuard(threshold_percentage, max_context)
    /\ agent \in {"claude", "nemo"}
    /\ pc = "run_loop"
    /\ max_iterations \in 1..MaxSessions
    /\ iteration = 0
    /\ tool_iteration = 0
    /\ current_tokens = 0
    /\ rotation_count = 0
    /\ history = <<>>
    /\ ws \in InitWorkspaces
    /\ response = NoResponse
    /\ pending = <<>>
    /\ tool_results = <<>>
    /\ result = NoResult
    /\ summary = NoSummary
    /\ checklist_created = FALSE
    /\ model_calls = 0
    /\ sessions = 0
    /\ guard_resets = 0
    /\ ws_at_response = ws

\* the variables LoopHead decides
EnterLoop(h) ==
    /\ pc' = h.pc
    /\ iteration' = h.iteration
    /\ history' = h.history
    /\ result' = h.result
    /\ summary' = h.summary
    /\ sessions' = sessions + h.started
    /\ tool_iteration' = IF h.started = 1 THEN 0 ELSE tool_iteration
    /\ model_calls' = IF h.started = 1 THEN 0 ELSE model_calls

\* run_loop is called: the first pass through the loop head
RunLoopStart ==
    /\ pc = "run_loop"
    /\ EnterLoop(LoopHead(agent, iteration, current_tokens, history, result,
                          rotation_count, ws))
    /\ UNCHANGED <<checklist_created, guard, agent, tokens_used, max_iterations, current_tokens, rotation_count, ws,
                   response, pending, tool_results, guard_resets, ws_at_response>>

\* the rest of the loop body with a rotation that also deletes the checklist
RunLoopAfterStepWipesChecklist ==
    /\ pc = "step_returned"
    /\ IF ~result.should_continue
          \/ (agent = "claude" /\ ShouldRotate(current_tokens))
       THEN /\ pc' = "finished"
            /\ summary' = RunSummary(agent, iteration, current_tokens, result,
                                     rotation_count)
            /\ UNCHANGED <<iteration, history, result, sessions, tool_iteration,
                           model_calls, current_tokens, rotation_count,
                           guard_resets, ws>>
       ELSE IF ShouldRotate(current_tokens)
       THEN /\ rotation_count' = rotation_count + 1
            /\ current_tokens' = 0
            /\ guard_resets' = guard_resets + 1
            /\ ws' = [ws EXCEPT ![PlanPath] = NoFile]
            /\ EnterLoop(LoopHead(agent, iteration, 0, history, result,
                                  rotation_count + 1, ws'))
       ELSE /\ UNCHANGED <<current_tokens, rotation_count, guard_resets, ws>>
            /\ EnterLoop(LoopHead(agent, iteration, current_tokens, history,
                                  result, rotation_count, ws))
    /\ UNCHANGED <<checklist_created, guard, agent, tokens_used, max_iterations, response, pending,
                   tool_results, ws_at_response>>

\* the rest of the loop body without the break on should_continue
RunLoopAfterStepIgnoresStop ==
    /\ pc = "step_returned"
    /\ IF agent = "claude" /\ ShouldRotate(current_tokens)
       THEN /\ pc' = "finished"
            /\ summary' = RunSummary(agent, iteration, current_tokens, result,
                                     rotation_count)
            /\ UNCHANGED <<iteration, history, result, sessions, tool_iteration,
                           model_calls, current_tokens, rotation_count,
                           guard_resets>>
       ELSE IF ShouldRotate(current_tokens)
       THEN /\ rotation_count' = rotation_count + 1
            /\ current_tokens' = 0
            /\ guard_resets' = guard_resets + 1
            /\ EnterLoop(LoopHead(agent, iteration, 0, history, result,
                                  rotation_count + 1, ws))
       ELSE /\ UNCHANGED <<current_tokens, rotation_count, guard_resets>>
            /\ EnterLoop(LoopHead(agent, iteration, current_tokens, history,
                                  result, rotation_count, ws))
    /\ UNCHANGED <<checklist_created, guard, agent, tokens_used, max_iterations, ws, response, pending, tool_results,
                   ws_at_response>>

\* execute_step has returned to run_loop: the rest of the loop body, the
\* loop head and, when the loop goes on, the next execute_step up to its
\* first gateway call
RunLoopAfterStep ==
    /\ pc = "step_returned"
    /\ IF ~result.should_continue
          \/ (agent = "claude" /\ ShouldRotate(current_tokens))
       THEN /\ pc' = "finished"
            /\ summary' = RunSummary(agent, iteration, current_tokens, result,
                                     rotation_count)
            /\ UNCHANGED <<iteration, history, result, sessions, tool_iteration,
                           model_calls, current_tokens, rotation_count,
                           guard_resets>>
       ELSE IF ShouldRotate(current_tokens)
       THEN /\ rotation_count' = rotation_count + 1
            /\ current_tokens' = 0
            /\ guard_resets' = guard_resets + 1
            /\ EnterLoop(LoopHead(agent, iteration, 0, history, result,
                                  rotation_count + 1, ws))
       ELSE /\ UNCHANGED <<current_tokens, rotation_count, guard_resets>>
            /\ EnterLoop(LoopHead(agent, iteration, current_tokens, history,
                                  result, rotation_count, ws))
    /\ UNCHANGED <<checklist_created, guard, agent, tokens_used, max_iterations, ws, response, pending, tool_results,
                   ws_at_response>>

\* The gateway answers the call of one pass of the tool loop: the tokens are
\* counted, the response is classified and, unless it carries tool calls,
\* handled to the end of the pass.
ModelResponds(resp) ==
    /\ pc = "chat"
    /\ tool_iteration' = tool_iteration + 1
    /\ model_calls' = model_calls + 1
    /\ current_tokens' = AddTokens(current_tokens, resp.tokens)
    /\ tokens_used' = tokens_used + resp.tokens
    /\ response' = resp
    /\ ws_at_response' = ws
    /\ tool_results' = <<>>
    /\ LET kind == Classify(agent, resp)
           seen == IF agent = "nemo"
                   THEN Append(history,
                               Turn("assistant",
                                    IF resp.tool_uses # <<>> THEN "tool_use" ELSE "text",
                                    Ids(resp.tool_uses)))
                   ELSE history
       IN  CASE kind = "complete" ->
                  /\ result' = ResultSignalComplete
                  /\ pc' = "step_returned"
                  /\ history' = seen
                  /\ pending' = <<>>
             [] kind = "gutter" ->
                  /\ result' = ResultGutter
                  /\ pc' = "step_returned"
                  /\ history' = seen
                  /\ pending' = <<>>
             [] kind = "tools" ->
                  /\ result' = result
                  /\ pc' = "tools"
                  /\ history' = IF agent = "nemo" THEN seen
                                ELSE Append(history,
                                            Turn("assistant", "tool_use",
                                                 Ids(resp.tool_uses)))
                  /\ pending' = resp.tool_uses
             [] kind = "text" /\ agent = "nemo" ->
                  /\ result' = ResultContinue(TRUE)
                  /\ pc' = "step_returned"
                  /\ history' = seen
                  /\ pending' = <<>>
             [] kind = "text" /\ agent = "claude" /\ resp.stop_reason = "end_turn" ->
                  /\ pc' = "step_returned"
                  /\ pending' = <<>>
                  /\ IF ~ws[PlanPath].exists
                     THEN /\ result' = ResultException
                          /\ history' = Append(history, Turn("assistant", "text", <<>>))
                     ELSE IF CheckAllTasksComplete(ws[PlanPath].text)
                     THEN /\ result' = ResultAllComplete
                          /\ history' = Append(history, Turn("assistant", "text", <<>>))
                     ELSE /\ result' = ResultContinue(~ShouldRotate(current_tokens'))
                          /\ history' = history \o <<Turn("assistant", "text", <<>>),
                                                     Turn("user", "nudge", <<>>)>>
             [] kind = "text" /\ agent = "claude" /\ resp.stop_reason # "end_turn" ->
                  /\ history' = Append(history, Turn("assistant", "text", <<>>))
                  /\ pending' = <<>>
                  /\ pc' = ToolLoopTest(tool_iteration')
                  /\ result' = IF ToolLoopTest(tool_iteration') = "chat"
                               THEN result ELSE ResultMaxIterations
    /\ UNCHANGED <<checklist_created, guard, agent, max_iterations, iteration, rotation_count, ws, summary,
                   sessions, guard_resets>>

\* The gateway call raises: the except clause of execute_step returns.
ModelRaises ==
    /\ pc = "chat"
    /\ tool_iteration' = tool_iteration + 1
    /\ model_calls' = model_calls + 1
    /\ result' = ResultException
    /\ pc' = "step_returned"
    /\ pending' = <<>>
    /\ UNCHANGED <<checklist_created, guard, agent, tokens_used, max_iterations, iteration, current_tokens, rotation_count,
                   history, ws, response, tool_results, summary, sessions,
                   guard_resets, ws_at_response>>

\* One pass of the `for` loop over the tool calls of the response; after the
\* last call the results are in the conversation and the tool loop goes on.
ExecuteToolCall ==
    /\ pc = "tools"
    /\ pending # <<>>
    /\ LET call == NextCall(pending)
           o    == ExecuteTool(agent, ws, call)
           res  == Append(tool_results,
                          [tool_use_id |-> call.id, content |-> o.result])
           last == Len(pending) = 1
       IN  IF o.raised # ""
           THEN /\ result' = ResultException
                /\ pc' = "step_returned"
                /\ pending' = <<>>
                /\ UNCHANGED <<ws, tool_results, history>>
           ELSE /\ ws' = o.ws
                /\ tool_results' = res
                /\ pending' = Tail(pending)
                /\ history' = IF agent = "nemo"
                              THEN Append(history, Turn("tool", "tool_result", <<call.id>>))
                              ELSE IF last
                              THEN Append(history,
                                          Turn("user", "tool_result", ResultIds(res)))
                              ELSE history
                /\ pc' = IF last THEN ToolLoopTest(tool_iteration) ELSE "tools"
                /\ result' = IF last /\ ToolLoopTest(tool_iteration) # "chat"
                             THEN ResultMaxIterations ELSE result
    /\ UNCHANGED <<checklist_created, guard, agent, tokens_used, max_iterations, iteration, tool_iteration, current_tokens,
                   rotation_count, response, summary, model_calls, sessions,
                   guard_resets, ws_at_response>>

(***************************************************************************)
(* Interrupt (main.py): Ctrl-C raises KeyboardInterrupt in the main thread *)
(* at whatever statement is executing; no handler of the agents catches    *)
(* it (they catch Exception), main prints a message and exits.             *)
(***************************************************************************)
\* where the interrupt lands: at a statement of the loop or of execute_step,
\* or inside write_file between opening the file (which truncates it) and
\* writing the content
InterruptPoints == {"at_statement", "in_write"}

\* the worker is running: in run_loop, waiting for the gateway, executing the
\* tool calls of a response, or back in run_loop after execute_step
WorkerRunning == pc \in {"run_loop", "chat", "tools", "step_returned"}

Interrupt(point) ==
    /\ WorkerRunning
    /\ point = "in_write"
         => /\ pc = "tools"
            /\ pending # <<>>
            /\ NextCall(pending).name = "write_file"
            /\ ExecuteTool(agent, ws, NextCall(pending)).raised = ""
    /\ ws' = IF point = "in_write"
             THEN [ws EXCEPT ![NextCall(pending).path] = File(<<>>)]
             ELSE ws
    /\ pc' = "interrupted"
    /\ UNCHANGED <<agent, max_iterations, iteration, tool_iteration,
                   current_tokens, rotation_count, history, response, pending,
                   tool_results, result, summary, checklist_created,
                   model_calls, sessions, guard_resets, ws_at_response, guard,
                   tokens_used>>

(***************************************************************************)
(* The planner session (PlannerAgent.run, NeMoPlannerAgent.run)            *)
(***************************************************************************)
\* number of characters of the text a token stands for; BODY stands for a
\* hundred characters of checklist text
CharLen(t) ==
    CASE t \in {CB0, CB1, CBX} -> 5
      [] t = HDR -> 9
      [] t = NUM -> 2
      [] t = CMT -> 8
      [] t = PRF -> 6
      [] t = ERRNF -> 43
      [] t = "BODY" -> 100
      [] OTHER -> 1

\* len(text)
RECURSIVE TextLen(_)
TextLen(text) == IF text = <<>> THEN 0 ELSE CharLen(Head(text)) + TextLen(Tail(text))

\* the shortest checklist the planner accepts
MinChecklistLength == 100

\* "instructions/plan.md" in path
NamesPlan(path) == path \in {PlanPath, OutsidePlanPath}

LongPlan == <<"BODY">> \o <<NL>> \o DocOpen

PlannerToolUses ==
    { <<Call("t1", "write_file", PlanPath, LongPlan, <<>>, <<>>, <<>>)>>,
      <<Call("t1", "write_file", PlanPath, DocOpen, <<>>, <<>>, <<>>)>>,
      <<CallRead("t1"), CallWrite("t2")>>,
      <<Call("t1", "write_file", OutsidePlanPath, LongPlan, <<>>, <<>>, <<>>)>>,
      <<CallUpdate("t1")>> }

PlannerResponses ==
    { [complete |-> FALSE, gutter |-> FALSE, tool_uses |-> t,
       stop_reason |-> IF t # <<>> THEN "tool_use" ELSE "end_turn", tokens |-> n] :
        t \in PlannerToolUses \cup {<<>>}, n \in {50000} }

PlannerWorkspaces ==
    { [q \in {PlanPath, NotePath} |-> IF q = PlanPath THEN plan ELSE NoFile] :
        plan \in {NoFile, File(LongPlan)} }

\* PlannerAgent.execute_tool: read_file and write_file only, inside try /
\* except Exception
PlannerExecuteTool(w, call) ==
    LET o == CASE call.name = "read_file" -> ToolsReadFile(w, call.path)
               [] call.name = "write_file" -> ToolsWriteFile(w, call.path, call.text)
               [] OTHER -> Returned(w, <<"Error: Unknown tool">>)
    IN  IF o.raised # "" THEN Returned(o.ws, <<"Error executing">>) ELSE o

\* the tool layer of each planner
PlanExecuteTool(a, w, call) ==
    IF a = "claude" THEN PlannerExecuteTool(w, call) ELSE RalphExecuteTool(w, call)

\* the `while iteration < max_iterations` test of the planner's loop
PlannerLoopTest(it) == IF it < MaxPlannerIterations THEN "plan_chat" ELSE "plan_done"

\* the dict run() returns once the loop is left
PlannerVerdict(a, w, created) ==
    IF ~created
    THEN StepResult(FALSE, "plan", FALSE, "Planner did not create the checklist file")
    ELSE LET rd == IF a = "claude" THEN ToolsReadFile(w, PlanPath)
                   ELSE RalphReadFile(w, PlanPath)
         IN  IF rd.raised # ""
             THEN StepResult(FALSE, "plan", FALSE,
                             "Checklist file was not found after tool execution")
             ELSE IF TextLen(rd.result) < MinChecklistLength
             THEN StepResult(FALSE, "plan", FALSE, "Generated checklist is too short")
             ELSE StepResult(TRUE, "plan", FALSE, "")

InitPlanner ==
    /\ tokens_used = 0
    /\ guard = ContextGuard(threshold_percentage, max_context)
    /\ agent \in {"claude", "nemo"}
    /\ pc = "planner"
    /\ max_iterations = 0
    /\ iteration = 0
    /\ tool_iteration = 0
    /\ current_tokens = 0
    /\ rotation_count = 0
    /\ history = <<>>
    /\ ws \in PlannerWorkspaces
    /\ response = NoResponse
    /\ pending = <<>>
    /\ tool_results = <<>>
    /\ result = NoResult
    /\ summary = NoSummary
    /\ checklist_created = FALSE
    /\ model_calls = 0
    /\ sessions = 0
    /\ guard_resets = 0
    /\ ws_at_response = ws

\* run() up to the first gateway call
PlannerStart ==
    /\ pc = "planner"
    /\ pc' = "plan_chat"
    /\ history' = <<Turn("user", "prompt", <<>>)>>
    /\ UNCHANGED <<guard, agent, tokens_used, max_iterations, iteration, tool_iteration, current_tokens,
                   rotation_count, ws, response, pending, tool_results, result,
                   summary, checklist_created, model_calls, sessions, guard_resets,
                   ws_at_response>>

\* the gateway answers the call of one pass of the planner's loop
PlannerModelResponds(resp) ==
    /\ pc = "plan_chat"
    /\ iteration' = iteration + 1
    /\ model_calls' = model_calls + 1
    /\ response' = resp
    /\ ws_at_response' = ws
    /\ tool_results' = <<>>
    /\ pending' = resp.tool_uses
    /\ history' = Append(history,
                         Turn("assistant",
                              IF resp.tool_uses # <<>> THEN "tool_use" ELSE "text",
                              Ids(resp.tool_uses)))
    /\ IF resp.tool_uses # <<>>
       THEN /\ pc' = "plan_tools"
            /\ result' = result
       ELSE /\ pc' = "plan_done"
            /\ result' = PlannerVerdict(agent, ws, checklist_created)
    /\ UNCHANGED <<guard, agent, tokens_used, max_iterations, tool_iteration, current_tokens,
                   rotation_count, ws, summary, checklist_created, sessions,
                   guard_resets>>

\* the gateway call raises: the outer except clause of run() returns
PlannerModelRaises ==
    /\ pc = "plan_chat"
    /\ iteration' = iteration + 1
    /\ model_calls' = model_calls + 1
    /\ pc' = "plan_done"
    /\ result' = StepResult(FALSE, "plan", FALSE, "exception")
    /\ UNCHANGED <<guard, agent, tokens_used, max_iterations, tool_iteration, current_tokens,
                   rotation_count, history, ws, response, pending, tool_results,
                   summary, checklist_created, sessions, guard_resets,
                   ws_at_response>>

\* one pass of the planner's `for` loop over the tool calls of the response
PlannerExecuteToolCall ==
    /\ pc = "plan_tools"
    /\ pending # <<>>
    /\ LET call == NextCall(pending)
           o    == PlanExecuteTool(agent, ws, call)
           res  == Append(tool_results,
                          [tool_use_id |-> call.id, content |-> o.result])
           last == Len(pending) = 1
           made == checklist_created
                   \/ (call.name = "write_file" /\ NamesPlan(call.path))
       IN  IF o.raised # ""
           THEN /\ result' = StepResult(FALSE, "plan", FALSE, "exception")
                /\ pc' = "plan_done"
                /\ pending' = <<>>
                /\ UNCHANGED <<ws, tool_results, history, checklist_created>>
           ELSE /\ ws' = o.ws
                /\ tool_results' = res
                /\ pending' = Tail(pending)
                /\ checklist_created' = made
                /\ history' = IF agent = "nemo"
                              THEN Append(history, Turn("tool", "tool_result", <<call.id>>))
                              ELSE IF last
                              THEN Append(history,
                                          Turn("user", "tool_result", ResultIds(res)))
                              ELSE history
                /\ pc' = IF last THEN PlannerLoopTest(iteration) ELSE "plan_tools"
                /\ result' = IF last /\ PlannerLoopTest(iteration) = "plan_done"
                             THEN PlannerVerdict(agent, o.ws, made) ELSE result
    /\ UNCHANGED <<guard, agent, tokens_used, max_iterations, iteration, tool_iteration, current_tokens,
                   rotation_count, response, summary, model_calls, sessions,
                   guard_resets, ws_at_response>>

(***************************************************************************)
(* The program: main.py runs the planner or the worker                     *)
(***************************************************************************)
Init == InitWorker \/ InitPlanner

Next ==
    \/ RunLoopStart
    \/ RunLoopAfterStep
    \/ \E resp \in Responses : ModelResponds(resp)
    \/ ModelRaises
    \/ ExecuteToolCall
    \/ PlannerStart
    \/ \E resp \in PlannerResponses : PlannerModelResponds(resp)
    \/ PlannerModelRaises
    \/ PlannerExecuteToolCall

Spec == Init /\ [][Next]_vars

\* the same runs with an operator at the keyboard who may press Ctrl-C
NextInterruptible ==
    \/ Next
    \/ \E point \in InterruptPoints : Interrupt(point)

InterruptSpec == Init /\ [][NextInterruptible]_vars

(***************************************************************************)
(* The checklist operations on their own: update_checklist applied to      *)
(* checklist documents drawn from a catalogue of lines                     *)
(***************************************************************************)
LineCatalog ==
    { HeaderLine,                        \* ### Phase 1: w
      <<HDR, "s">>,                      \* ### Phases
      <<CB0, SP, "a">>,                  \* - [ ] a
      <<CB0, SP, "a", "b">>,             \* - [ ] a b
      <<CB1, SP, "a">>,                  \* - [x] a
      <<SP, SP, CB0, SP, "a">>,          \*   - [ ] a
      <<SP, SP, DSH, SP, PRF, SP, "p">>, \*   - Proof: p
      <<CB0, SP, "b", SP, PRF>>,         \* - [ ] b Proof:
      <<CB0, SP, "a", SP, CMT, SP, "s", RP>>, \* - [ ] a (commit: s)
      <<"t">> }                          \* t

RECURSIVE LineSeqs(_)
LineSeqs(n) ==
    IF n = 0 THEN {<<>>}
    ELSE LET shorter == LineSeqs(n - 1)
         IN  shorter \cup {Append(ls, l) : ls \in {x \in shorter : Len(x) = n - 1},
                                           l \in LineCatalog}

\* a checklist of two phases with a line between them that starts like a
\* phase header and is none:
\*   ### Phase 1: w / - [x] a / ### Phases / ### Phase 1: v /   - [ ] a / - [ ] a b
DocTwoPhases ==
    Join(<<HeaderLine, <<CB1, SP, "a">>, <<HDR, "s">>, <<HDR, SP, NUM, SP, "v">>,
           <<SP, SP, CB0, SP, "a">>, <<CB0, SP, "a", "b">>>>)

\* an open task above a finished one whose text mentions its proof:
\*   - [ ] a / - [x] b Proof:
DocCheckedProof == Join(<<<<CB0, SP, "a">>, <<CB1, SP, "b", SP, PRF>>>>)

\* every document of up to MaxLines catalogue lines, the documents the
\* worker runs start from, the checklist of two phases and the one with a
\* finished task that mentions its proof
CatalogDocs ==
    {Join(ls) : ls \in LineSeqs(MaxLines) \ {<<>>}} \cup InitDocs
        \cup {DocTwoPhases, DocCheckedProof}

\* the arguments of update_checklist
Descriptions == {<<"a">>, <<"a", "b">>}

Proofs == {<<"p">>, <<"p", NL, "q">>}

CommitShas == {<<>>, <<"s">>}

\* update_checklist of either tool layer on a file content
UpdateChecklist(a, content, task_description, proof, commit_sha) ==
    IF a = "claude"
    THEN ToolsUpdateChecklist(content, task_description, proof, commit_sha)
    ELSE RalphUpdateChecklist(content, task_description, proof, commit_sha)

InitChecklist ==
    /\ tokens_used = 0
    /\ guard = ContextGuard(threshold_percentage, max_context)
    /\ agent \in {"claude", "nemo"}
    /\ pc = "checklist"
    /\ max_iterations = 0
    /\ iteration = 0
    /\ tool_iteration = 0
    /\ current_tokens = 0
    /\ rotation_count = 0
    /\ history = <<>>
    /\ ws \in { [q \in {PlanPath, NotePath} |->
                    IF q = PlanPath THEN File(d) ELSE NoFile] : d \in CatalogDocs }
    /\ response = NoResponse
    /\ pending = <<>>
    /\ tool_results = <<>>
    /\ result = NoResult
    /\ summary = NoSummary
    /\ checklist_created = FALSE
    /\ model_calls = 0
    /\ sessions = 0
    /\ guard_resets = 0
    /\ ws_at_response = ws

\* execute_tool("update_checklist", ...) of the worker's tool layer
UpdateChecklistCall(task_description, proof, commit_sha) ==
    /\ pc = "checklist"
    /\ tool_iteration < MaxUpdates
    /\ LET call == Call("t1", "update_checklist", PlanPath, <<>>,
                        task_description, proof, commit_sha)
           o    == ExecuteTool(agent, ws, call)
       IN  /\ ws' = o.ws
           /\ pending' = <<call>>
           /\ tool_results' = <<[tool_use_id |-> call.id, content |-> o.result]>>
    /\ ws_at_response' = ws
    /\ tool_iteration' = tool_iteration + 1
    /\ UNCHANGED <<guard, agent, tokens_used, pc, max_iterations, iteration, current_tokens,
                   rotation_count, history, response, result, summary,
                   checklist_created, model_calls, sessions, guard_resets>>

NextChecklist ==
    \E d \in Descriptions, p \in Proofs, c \in CommitShas : UpdateChecklistCall(d, p, c)

ChecklistSpec == InitChecklist /\ [][NextChecklist]_vars

(***************************************************************************)
(* The sandbox operations on their own: each file operation of the tool    *)
(* layer applied to a small file system that holds the workspace root /r/w *)
(* and, next to it, the directories /r and /r/w2                           *)
(***************************************************************************)
RECURSIVE TextsUpTo(_)
TextsUpTo(n) ==
    IF n = 0 THEN {<<>>}
    ELSE LET shorter == TextsUpTo(n - 1)
         IN  shorter \cup {Append(t, c) : t \in {x \in shorter : Len(x) = n - 1},
                                          c \in {"a", "b"}}

Paths == {PlanPath, NotePath, OutsidePath, OutsidePlanPath, SiblingPath}

\* the file systems the operations start from
SandboxWorkspaces ==
    { [q \in Paths |->
          CASE q = PlanPath    -> File(DocOpen)
            [] q = NotePath    -> f
            [] q = SiblingPath -> File(<<"a">>)
            [] q = OutsidePath -> File(<<"o">>)
            [] OTHER           -> NoFile] :
        f \in {NoFile} \cup {File(t) : t \in TextsUpTo(MaxChars) \ {<<>>}} }

\* the old_str and new_str arguments a str_replace_editor call may carry
OldStrs == TextsUpTo(2)

NewStrs == {<<>>, <<"c">>}

EditPaths == {NotePath, OutsidePath, SiblingPath}

InitSandbox ==
    /\ tokens_used = 0
    /\ guard = ContextGuard(threshold_percentage, max_context)
    /\ agent \in {"claude", "nemo"}
    /\ pc = "sandbox"
    /\ max_iterations = 0
    /\ iteration = 0
    /\ tool_iteration = 0
    /\ current_tokens = 0
    /\ rotation_count = 0
    /\ history = <<>>
    /\ ws \in SandboxWorkspaces
    /\ response = NoResponse
    /\ pending = <<>>
    /\ tool_results = <<>>
    /\ result = NoResult
    /\ summary = NoSummary
    /\ checklist_created = FALSE
    /\ model_calls = 0
    /\ sessions = 0
    /\ guard_resets = 0
    /\ ws_at_response = ws

\* one operation of the tool layer: the call, the file system before and
\* after it, and what it returned or raised
SandboxCall(call, o) ==
    /\ pc = "sandbox"
    /\ tool_iteration < MaxCalls
    /\ ws' = o.ws
    /\ pending' = <<call>>
    /\ tool_results' = <<[tool_use_id |-> call.id, content |-> o.result,
                          raised |-> o.raised]>>
    /\ ws_at_response' = ws
    /\ tool_iteration' = tool_iteration + 1
    /\ UNCHANGED <<guard, agent, tokens_used, pc, max_iterations, iteration, current_tokens,
                   rotation_count, history, response, result, summary,
                   checklist_created, model_calls, sessions, guard_resets>>

\* read_file(path)
ReadFileCall(path) ==
    SandboxCall(Call("t1", "read_file", path, <<>>, <<>>, <<>>, <<>>),
                IF agent = "claude" THEN ToolsReadFile(ws, path)
                ELSE RalphReadFile(ws, path))

\* write_file(path, content)
WriteFileCall(path, content) ==
    SandboxCall(Call("t1", "write_file", path, content, <<>>, <<>>, <<>>),
                IF agent = "claude" THEN ToolsWriteFile(ws, path, content)
                ELSE RalphWriteFile(ws, path, content))

\* str_replace_editor(command, path, old_str, new_str)
StrReplaceEditorCall(command, path, old_str, new_str) ==
    SandboxCall(CallEdit("t1", command, path, old_str, new_str),
                IF agent = "claude"
                THEN ToolsStrReplaceEditor(ws, command, path, old_str, new_str)
                ELSE RalphStrReplaceEditor(ws, command, path, old_str, new_str))

\* append_file(path, content): Tools only
AppendFileCall(path, content) ==
    /\ agent = "claude"
    /\ SandboxCall(Call("t1", "append_file", path, content, <<>>, <<>>, <<>>),
                   ToolsAppendFile(ws, path, content))

\* update_checklist(path, task_description, proof, commit_sha)
UpdateChecklistFileCall(path, task_description, proof, commit_sha) ==
    SandboxCall(Call("t1", "update_checklist", path, <<>>,
                     task_description, proof, commit_sha),
                IF agent = "claude"
                THEN ToolsUpdateChecklistFile(ws, path, task_description,
                                              proof, commit_sha)
                ELSE RalphUpdateChecklistFile(ws, path, task_description,
                                              proof, commit_sha))

\* git_commit(message): the outcomes of its git commands are inputs; the
\* files of the model are not touched.  RalphTools runs git without a
\* time limit.
GitCommitCall(commit, rev_parse) ==
    /\ pc = "sandbox"
    /\ tool_iteration < MaxCalls
    /\ commit = "timeout" => agent = "claude"
    /\ pending' = <<Call("t1", "git_commit", NotePath, <<"m">>, <<>>, <<>>, <<>>)>>
    /\ tool_results' = <<[tool_use_id |-> "t1",
                          content |-> GitCommit(commit, rev_parse),
                          raised |-> "",
                          commit |-> commit,
                          rev_parse |-> rev_parse]>>
    /\ ws_at_response' = ws
    /\ tool_iteration' = tool_iteration + 1
    /\ UNCHANGED <<guard, agent, tokens_used, pc, max_iterations, iteration,
                   current_tokens, rotation_count, history, ws, response, result,
                   summary, checklist_created, model_calls, sessions, guard_resets>>

NextSandbox ==
    \/ \E c \in CommitOutcomes, r \in RevParseOutcomes : GitCommitCall(c, r)
    \/ \E q \in Paths : ReadFileCall(q)
    \/ \E q \in Paths : WriteFileCall(q, <<"v">>)
    \/ \E c \in {"str_replace", "create", "insert"}, q \in EditPaths,
          o \in OldStrs, n \in NewStrs : StrReplaceEditorCall(c, q, o, n)
    \/ \E q \in Paths : AppendFileCall(q, <<"v">>)
    \/ \E q \in Paths : UpdateChecklistFileCall(q, <<"a">>, <<"p">>, <<>>)

SandboxSpec == InitSandbox /\ [][NextSandbox]_vars

(***************************************************************************)
(* The context guard on its own: a guard built from each configuration,    *)
(* with add_tokens and reset applied to it                                 *)
(***************************************************************************)
\* the token counts added by one call
GuardTokenCounts == {1, 50000, 57999, 99999}

InitGuard ==
    /\ tokens_used = 0
    /\ guard \in {ContextGuard(c[2], c[1]) : c \in Configs}
    /\ agent = "nemo"
    /\ pc = "guard"
    /\ max_iterations = 0
    /\ iteration = 0
    /\ tool_iteration = 0
    /\ current_tokens = 0
    /\ rotation_count = 0
    /\ history = <<>>
    /\ ws = [q \in {PlanPath, NotePath} |-> NoFile]
    /\ response = NoResponse
    /\ pending = <<>>
    /\ tool_results = <<>>
    /\ result = NoResult
    /\ summary = NoSummary
    /\ checklist_created = FALSE
    /\ model_calls = 0
    /\ sessions = 0
    /\ guard_resets = 0
    /\ ws_at_response = ws

\* ContextGuard.add_tokens(n)
GuardAddTokens(n) ==
    /\ pc = "guard"
    /\ model_calls < MaxAdds
    /\ current_tokens' = AddTokens(current_tokens, n)
    /\ tokens_used' = tokens_used + n
    /\ model_calls' = model_calls + 1
    /\ UNCHANGED <<guard, agent, pc, max_iterations, iteration, tool_iteration,
                   rotation_count, history, ws, response, pending, tool_results,
                   result, summary, checklist_created, sessions, guard_resets,
                   ws_at_response>>

\* ContextGuard.reset()
GuardReset ==
    /\ pc = "guard"
    /\ guard_resets < MaxAdds
    /\ current_tokens' = 0
    /\ guard_resets' = guard_resets + 1
    /\ UNCHANGED <<guard, agent, tokens_used, pc, max_iterations, iteration, tool_iteration,
                   rotation_count, history, ws, response, pending, tool_results,
                   result, summary, checklist_created, model_calls, sessions,
                   ws_at_response>>

NextGuard ==
    \/ \E n \in GuardTokenCounts : GuardAddTokens(n)
    \/ GuardReset

GuardSpec == InitGuard /\ [][NextGuard]_vars

(***************************************************************************)
(* Properties                                                              *)
(***************************************************************************)
\* the positions of a worker run
WorkerPcs == {"run_loop", "chat", "tools", "step_returned", "finished", "crashed"}

\* the positions of a planner session
PlannerPcs == {"planner", "plan_chat", "plan_tools", "plan_done"}

\* s is an initial segment of t
IsPrefix(s, t) == Len(s) <= Len(t) /\ SubSeq(t, 1, Len(s)) = s

\* No tool call of the current response has been executed, and none since.
NoToolCallRun == tool_results = <<>> /\ pending = <<>> /\ ws = ws_at_response

\* C1 as stated: whenever the response of a worker session contains the stuck
\* marker, the session ends with outcome gutter (should_continue false) and
\* no tool call of that response, or any later one, is executed.
C1_GutterAlwaysEndsStuck ==
    (pc \in WorkerPcs /\ response.gutter) =>
        /\ pc \in {"step_returned", "finished"}
        /\ result = ResultGutter
        /\ NoToolCallRun

\* C1 amended: whenever the response of a worker session contains the stuck
\* marker and not the completion marker, the session ends with outcome gutter
\* (should_continue false) and no tool call of that response, or any later
\* one, is executed, even when the response carries tool calls.
C1_GutterWithoutCompleteEndsStuck ==
    (pc \in WorkerPcs /\ response.gutter /\ ~response.complete) =>
        /\ pc \in {"step_returned", "finished"}
        /\ result = ResultGutter
        /\ ~result.should_continue
        /\ NoToolCallRun

\* a run that ended on a stuck marker sent together with tool calls
C1_Witness ==
    /\ pc = "finished"
    /\ response.gutter /\ ~response.complete
    /\ response.tool_uses # <<>>
    /\ result.action = "gutter"

\* the tool calls `calls` executed one after the other from workspace w: the
\* workspace left and the results, each tagged with its call's id
RECURSIVE SequentialRun(_, _, _)
SequentialRun(a, w, calls) ==
    IF calls = <<>> THEN [ws |-> w, results |-> <<>>]
    ELSE LET before == SequentialRun(a, w, Take(calls, Len(calls) - 1))
             call   == calls[Len(calls)]
             o      == ExecuteTool(a, before.ws, call)
         IN  [ws      |-> o.ws,
              results |-> Append(before.results,
                                 [tool_use_id |-> call.id, content |-> o.result])]

\* the conversation ends with the tool calls of `resp` followed by their
\* results, in the order of the calls
EndsWithResults(a, hist, resp) ==
    LET ids == Ids(resp.tool_uses)
        n   == Len(ids)
        h   == Len(hist)
    IN  IF a = "claude"
        THEN /\ h >= 2
             /\ hist[h - 1] = Turn("assistant", "tool_use", ids)
             /\ hist[h] = Turn("user", "tool_result", ids)
        ELSE /\ h >= n + 1
             /\ hist[h - n] = Turn("assistant", "tool_use", ids)
             /\ \A k \in 1..n : hist[h - n + k] = Turn("tool", "tool_result", <<ids[k]>>)

\* C2: when a response carries tool calls and no marker, the calls are
\* executed one at a time in the order issued, each on the workspace the
\* earlier calls of the response left; the results so far are those of the
\* first calls in that order, each tagged with its call's id; and when the
\* model is called again every call has exactly one result, in the same
\* order, at the end of the conversation.
C2_ToolCallsInOrder ==
    (pc \in WorkerPcs /\ Classify(agent, response) = "tools") =>
        LET n   == Len(tool_results)
            run == SequentialRun(agent, ws_at_response, Take(response.tool_uses, n))
        IN  /\ n <= Len(response.tool_uses)
            /\ tool_results = run.results
            /\ ws = run.ws
            /\ \/ pending = Drop(response.tool_uses, n)
               \/ pending = <<>> /\ result = ResultException
            /\ pc = "chat" =>
                  /\ n = Len(response.tool_uses)
                  /\ EndsWithResults(agent, history, response)

\* the model is about to be called again after a write and a read of the
\* file just written: the read has seen the write
C2_Witness ==
    /\ pc = "chat"
    /\ response.tool_uses = <<CallWrite("t1"), CallRead("t2")>>
    /\ ~response.complete /\ ~response.gutter
    /\ ~ws_at_response[NotePath].exists
    /\ Len(tool_results) = 2
    /\ tool_results[2] = [tool_use_id |-> "t2", content |-> <<"v">>]

\* every task of indentation 0, across all phases of the parsed document, is
\* checked
TopLevelChecked(content) ==
    LET ts == AllTasks(ParsePhases(content))
    IN  \A k \in 1..Len(ts) : ts[k].indent = 0 => ts[k].is_complete

\* C3: in WorkerAgent.execute_step a response with no tool calls, no marker
\* and stop reason end_turn ends the session Done if and only if every
\* indentation-0 task of the checklist on disk is checked, whatever the state
\* of the sub-tasks; otherwise the nudge turn is appended and the action is
\* continue.
C3_DoneIffTopLevelChecked ==
    ( /\ agent = "claude"
      /\ pc \in {"step_returned", "finished"}
      /\ WorkerClassify(response) = "text"
      /\ response.stop_reason = "end_turn"
      /\ ws[PlanPath].exists
      /\ result.message \in {ResultAllComplete.message, ResultContinue(TRUE).message} ) =>
        /\ result.action = "complete" <=> TopLevelChecked(ws[PlanPath].text)
        /\ result.action # "complete" =>
              /\ result.action = "continue"
              /\ history[Len(history)] = Turn("user", "nudge", <<>>)

\* C4: a run ends only on Done, Stuck, exhausted or error, or when the
\* session cap is reached; reaching the rotation threshold after a session
\* whose outcome is continue does not end it.
C4_RotationDoesNotEndRun ==
    pc = "finished" =>
        \/ result.action \in {"complete", "gutter", "error"}
        \/ iteration >= max_iterations

\* C5: over any run, a step of the driver that goes on to a further session
\* discards the conversation history if and only if it calls
\* ContextGuard.reset(); neither happens without the other.
C5_ResetInLockStep ==
    [][ (pc = "step_returned" /\ pc' # "finished") =>
            (~IsPrefix(history, history') <=> guard_resets' # guard_resets) ]_vars

\* what run_loop and other callers branch on in the dict execute_step returns
Outcome(r) == <<r.success, r.action, r.should_continue>>

\* C6: the outcome execute_step reports when the per-session cap of model
\* calls is reached differs from success, from Stuck and from a hard error.
C6_ExhaustedIsDistinct ==
    (pc \in WorkerPcs /\ result = ResultMaxIterations) =>
        /\ Outcome(result) # Outcome(ResultSignalComplete)
        /\ Outcome(result) # Outcome(ResultGutter)
        /\ Outcome(result) # Outcome(ResultException)

\* the caps on model calls and sessions
WithinCaps ==
    /\ pc \in WorkerPcs =>
          /\ model_calls <= MaxToolIterations
          /\ tool_iteration <= MaxToolIterations
          /\ sessions <= max_iterations
    /\ pc \in PlannerPcs =>
          /\ model_calls <= MaxPlannerIterations
          /\ iteration <= MaxPlannerIterations

\* what is left of a run: sessions, then model calls of the session, then
\* tool calls of the response, then the steps of the driver
Remaining ==
    LET steps == IF pc \in {"run_loop", "planner"} THEN 2
                 ELSE IF pc \in {"step_returned", "plan_chat", "chat"} THEN 1
                 ELSE 0
        calls == 2 * Len(pending) + steps
    IN  IF pc \in PlannerPcs
        THEN (MaxPlannerIterations - iteration) * 16 + calls
        ELSE ((max_iterations - iteration) * (MaxToolIterations + 1)
                + (MaxToolIterations - tool_iteration)) * 16 + calls

\* C7: whatever the model answers, a worker session makes at most
\* MaxToolIterations model calls, a planner session at most
\* MaxPlannerIterations, run_loop starts at most max_iterations sessions, and
\* every step of a run lowers a measure that is never negative, so every run
\* terminates.
C7_CapsAndTermination ==
    [][ /\ WithinCaps /\ WithinCaps'
        /\ Remaining >= 0 /\ Remaining' >= 0
        /\ Remaining' < Remaining ]_vars

\* a run that used every session, the last of which used every model call
C7_Witness ==
    /\ pc = "finished"
    /\ sessions = max_iterations
    /\ sessions = MaxSessions
    /\ model_calls = MaxToolIterations
    /\ result = ResultMaxIterations

\* C8: whenever the response of a worker session contains the completion
\* marker, the session ends with outcome complete (should_continue false) and
\* no tool call carried by that response is executed.
C8_CompleteEndsDone ==
    (pc \in WorkerPcs /\ response.complete) =>
        /\ pc \in {"step_returned", "finished"}
        /\ result = ResultSignalComplete
        /\ result.action = "complete" /\ ~result.should_continue
        /\ NoToolCallRun

\* a run that ended on a completion marker sent together with the stuck
\* marker and tool calls
C8_Witness ==
    /\ pc = "finished"
    /\ response.complete /\ response.gutter
    /\ response.tool_uses # <<>>
    /\ result.action = "complete"
    /\ summary.completed

\* C9: for every checklist document (here: every one that opens with a phase
\* header, so that each task line belongs to a phase) both completion checks
\* return true if and only if every task of indentation 0 across all phases
\* is checked, whatever the state of the sub-tasks.
C9_CompletionIsTopLevel ==
    (pc = "checklist" /\ ws[PlanPath].exists
        /\ PhaseMatch(Split(ws[PlanPath].text)[1])) =>
        LET content == ws[PlanPath].text
        IN  /\ CheckAllTasksComplete(content) <=> TopLevelChecked(content)
            /\ NemoAllTasksComplete(content) <=> TopLevelChecked(content)

\* C10: update_checklist is idempotent: the same call made again on the
\* document the first call left leaves that document as it is.
C10_UpdateIdempotent ==
    (pc = "checklist" /\ pending # <<>>) =>
        ExecuteTool(agent, ws, pending[1]).ws = ws

\* the lines (1-based) that are unchecked task lines holding the description
UncheckedHits(lines, task_description) ==
    {i \in 1..Len(lines) :
        /\ StartsWith(LStrip(lines[i]), <<CB0>>)
        /\ Contains(lines[i], task_description)}

\* the texts update_checklist fails with when no task is found, as the tool
\* layer hands them to the loop
TaskNotFoundTexts == {<<"Error executing">>, <<"Error: Task not found">>}

\* C11: update_checklist acts on the first unchecked task line that contains
\* the description, also when an earlier checked line contains it: that line
\* becomes the marked line and the lines above it stay as they were; when no
\* unchecked line contains the description the call reports task-not-found
\* and leaves the document unchanged.
C11_ActsOnFirstUnchecked ==
    (pc = "checklist" /\ pending # <<>>) =>
        LET before == Split(ws_at_response[PlanPath].text)
            after  == Split(ws[PlanPath].text)
            hits   == UncheckedHits(before, pending[1].desc)
        IN  IF hits = {}
            THEN /\ ws = ws_at_response
                 /\ tool_results[1].content \in TaskNotFoundTexts
            ELSE LET k == CHOOSE i \in hits : \A j \in hits : i <= j
                 IN  /\ Len(after) >= k
                     /\ after[k] = MarkedLine(before[k], pending[1].sha)
                     /\ \A j \in 1..(k - 1) : after[j] = before[j]
                     /\ tool_results[1].content = <<"Checklist updated">>

\* the line is a proof annotation: "- Proof: ..." after its indentation
IsProofAnnotation(line) == StartsWith(LStrip(line), <<DSH, SP, PRF>>)

\* the sequence without its elements at positions from..to
WithoutRange(lines, from, to) ==
    Take(lines, from - 1) \o Drop(lines, IF to < Len(lines) THEN to ELSE Len(lines))

\* the line (1-based, 0 for none) update_checklist of the tool layer matches
MatchedLine(a, lines, task_description) ==
    1 + (IF a = "claude" THEN ToolsFindTask(lines, task_description)
         ELSE RalphFindTask(lines, task_description))

\* C12: a successful update_checklist changes only the matched task line and
\* its proof annotation directly below it: the other lines of the document,
\* among them the line that followed the task when it was not a proof
\* annotation, are kept, in the same order.
C12_OtherLinesKept ==
    (pc = "checklist" /\ pending # <<>>
        /\ tool_results[1].content = <<"Checklist updated">>) =>
        LET before == Split(ws_at_response[PlanPath].text)
            after  == Split(ws[PlanPath].text)
            k      == MatchedLine(agent, before, pending[1].desc)
            had    == k < Len(before) /\ IsProofAnnotation(before[k + 1])
            proofs == Len(Split(pending[1].proof))
        IN  WithoutRange(after, k, k + proofs)
                = WithoutRange(before, k, IF had THEN k + 1 ELSE k)

Positions(s, sub) ==
    {i \in 0..(Len(s) - Len(sub)) : SubSeq(s, i + 1, i + Len(sub)) = sub}

\* C14: str_replace_editor in mode str_replace, on an existing file of the
\* workspace and a non-empty old_str: when old_str occurs nowhere the result is
\* the not-found failure, when it occurs at more than one position the result
\* is another failure, and the file system is unchanged in both cases; when it
\* occurs at exactly one position the call succeeds and the file is the
\* original with that one occurrence replaced by new_str.
C14_ReplaceOnlyWhenUnique ==
    (/\ pc = "sandbox" /\ pending # <<>>
     /\ pending[1].name = "str_replace_editor"
     /\ pending[1].command = "str_replace"
     /\ pending[1].path = NotePath
     /\ ws_at_response[NotePath].exists
     /\ pending[1].old_str # <<>>)
    => LET before == ws_at_response[NotePath].text
           old    == pending[1].old_str
           new    == pending[1].new_str
           hits   == Positions(before, old)
           out    == tool_results[1]
       IN  /\ out.raised = ""
           /\ hits = {} =>
                 /\ out.content = <<"Error: old_str not found">>
                 /\ ws = ws_at_response
           /\ Cardinality(hits) > 1 =>
                 /\ out.content # <<"Error: old_str not found">>
                 /\ out.content # <<"File edited">>
                 /\ ws = ws_at_response
           /\ Cardinality(hits) = 1 =>
                 LET k == CHOOSE i \in hits : TRUE
                 IN  /\ out.content = <<"File edited">>
                     /\ ws = [ws_at_response EXCEPT ![NotePath] =
                                 File(Take(before, k) \o new
                                      \o Drop(before, k + Len(old)))]

\* the resolved path lies under the workspace root, component by component
UnderRoot(path) == IsPrefix(workspace_dir, Resolve(workspace_dir, Segments(path)))

\* C15: every sandbox file operation rejects a requested path that does not
\* resolve under the workspace root: the operation raises the outside-workspace
\* error (update_checklist of RalphTools returns it as text), and the file
\* system, whose files outside the root are part of it, is left as it was.
C15_OutsidePathsRejected ==
    (pc = "sandbox" /\ pending # <<>> /\ ~UnderRoot(pending[1].path))
    => /\ \/ tool_results[1].raised = "ValueError"
          \/ tool_results[1].content = <<"Error updating checklist">>
       /\ ws = ws_at_response

\* a tool call that fails at tool level: a path outside the workspace, a
\* missing file, a replace text that is absent or ambiguous, or a name that is
\* not a declared tool
ToolLevelFailure(w, call) ==
    \/ Outside(call.path)
    \/ call.name = "read_file" /\ ~w[call.path].exists
    \/ /\ call.name = "str_replace_editor"
       /\ call.command = "str_replace"
       /\ \/ ~w[call.path].exists
          \/ Cardinality(Positions(w[call.path].text, call.old_str)) # 1
    \/ call.name \notin {available_tools[i] : i \in 1..Len(available_tools)}

\* C16: in either worker loop, a tool call that fails at tool level yields a
\* non-empty text recorded as the result of that call, the session does not
\* end with outcome error, and when the session goes on to the next model call
\* the result is in the conversation.
C16_ToolFailureBecomesText ==
    [][(pc = "tools" /\ pending # <<>> /\ ToolLevelFailure(ws, NextCall(pending)))
       => LET call == NextCall(pending)
          IN  /\ Len(tool_results') = Len(tool_results) + 1
              /\ tool_results'[Len(tool_results')].tool_use_id = call.id
              /\ tool_results'[Len(tool_results')].content # <<>>
              /\ pc' \in {"tools", "chat", "step_returned"}
              /\ pc' = "step_returned" => result' = ResultMaxIterations
              /\ pc' = "chat" =>
                    /\ history' # <<>>
                    /\ history'[Len(history')].kind = "tool_result"
                    /\ call.id \in {history'[Len(history')].ids[i] :
                                        i \in 1..Len(history'[Len(history')].ids)}]_vars

\* C17: in either worker loop, a session in which the gateway call raises, or
\* in which a tool call names a path that path resolution finds outside the
\* workspace, ends at that step with outcome error, success false and a
\* message, and is not continued.
C17_SessionFailureEndsSession ==
    [][(\/ ModelRaises
        \/ pc = "tools" /\ pending # <<>> /\ Outside(NextCall(pending).path))
       => /\ pc' = "step_returned"
          /\ result'.action = "error"
          /\ ~result'.success
          /\ ~result'.should_continue
          /\ result'.message # ""]_vars

\* the six tools declared to the model
DeclaredTools ==
    {"read_file", "write_file", "str_replace_editor", "run_command",
     "git_commit", "update_checklist"}

C19_ThresholdIsFloor ==
    pc = "guard" =>
       LET floor == (guard.max_context * guard.threshold_percentage) \div 100
       IN  /\ guard.threshold_tokens = floor
           /\ ShouldRotate(current_tokens) <=> current_tokens >= floor
           /\ (guard.threshold_percentage = 10 /\ guard.max_context = 1000000) =>
                 /\ guard.threshold_tokens = 100000
                 /\ current_tokens = 99999 => ~ShouldRotate(current_tokens)
                 /\ current_tokens = 100000 => ShouldRotate(current_tokens)

\* C20: over a worker run, every model call that returns adds the input and
\* output tokens of its response to current_tokens; current_tokens decreases
\* only in a reset; a reset sets it to 0, after which should_rotate() is
\* false, and happens only in a state where should_rotate() holds.
C20_TokensGrowResetAtRotation ==
    [][/\ (\E resp \in Responses : ModelResponds(resp))
             => /\ response'.tokens > 0
                /\ current_tokens' = current_tokens + response'.tokens
       /\ current_tokens' < current_tokens => guard_resets' = guard_resets + 1
       /\ guard_resets' # guard_resets
             => /\ guard_resets' = guard_resets + 1
                /\ ShouldRotate(current_tokens)
                /\ current_tokens' = 0
                /\ ~ShouldRotate(current_tokens')]_vars

\* the guard was reset at a rotation and a later model call has added its
\* tokens to the count
C20_Witness ==
    /\ agent = "nemo"
    /\ guard_resets = 1
    /\ rotation_count = 1
    /\ pc = "step_returned"
    /\ current_tokens = response.tokens
    /\ current_tokens > 0

\* C21: a rotation by the driver (the guard is reset, the rotation is counted
\* and a fresh session starts) leaves the workspace as it was: the checklist
\* that the next session reads is the checklist before the rotation.
C21_RotationKeepsChecklist ==
    [][rotation_count' = rotation_count + 1
       => /\ guard_resets' = guard_resets + 1
          /\ ws' = ws
          /\ RalphReadFile(ws', PlanPath) = RalphReadFile(ws, PlanPath)]_vars

\* a session recorded a proof in the checklist, the driver rotated, and the
\* next session stands before its first model call with that checklist
C21_Witness ==
    /\ agent = "nemo"
    /\ rotation_count = 1
    /\ guard_resets = 1
    /\ sessions = 2
    /\ pc = "chat"
    /\ model_calls = 0
    /\ ws[PlanPath].exists
    /\ Contains(ws[PlanPath].text, <<PRF>>)

\* the 1-based numbers of the lines that are unchecked tasks of indentation 0
\* and lie below a phase header
OpenTopLevelLines(lines) ==
    {i \in 1..Len(lines) :
        /\ StartsWith(lines[i], <<CB0, SP>>)
        /\ Len(lines[i]) > 2
        /\ \E j \in 1..(i - 1) : PhaseMatch(lines[j])}

\* C22: next_task of parse_checklist is the first unchecked task of
\* indentation 0 of the document, taken in phase order, with its description
\* and line number; unchecked sub-tasks and checked tasks are passed over; it
\* is None exactly when no phase has an unchecked task of indentation 0.
C22_NextTaskIsFirstOpenTopLevel ==
    (pc = "checklist" /\ ws[PlanPath].exists)
    => LET lines == Split(ws[PlanPath].text)
           open  == OpenTopLevelLines(lines)
           next  == NextTask(ws[PlanPath].text)
       IN  IF open = {} THEN next = NoTask
           ELSE LET k == CHOOSE i \in open : \A j \in open : i <= j
                IN  /\ next # NoTask
                    /\ next.line_number = k - 1
                    /\ next.description = LStrip(Tail(lines[k]))

\* update_checklist has checked the first task of a phase and written its
\* proof; next_task is the unchecked task below, on the fourth line
C22_Witness ==
    /\ pc = "checklist"
    /\ pending # <<>>
    /\ ws[PlanPath].text = Join(<<HeaderLine,
                                  <<CB1, SP, "a">>,
                                  <<SP, SP, DSH, SP, PRF, SP, "p">>,
                                  <<CB0, SP, "a", "b">>>>)
    /\ NextTask(ws[PlanPath].text) = [description |-> <<"a", "b">>, line_number |-> 3]

\* parse_checklist on the checklist of two phases: the first phase is listed
\* twice, and next_task is the unchecked task of the second phase, on the
\* sixth line, below a checked task and an unchecked sub-task
C22_TwoPhases ==
    /\ pc = "checklist"
    /\ ws[PlanPath].text = DocTwoPhases
    /\ Len(ParsePhases(DocTwoPhases)) = 3
    /\ NextTask(ws[PlanPath].text) = [description |-> <<"a", "b">>, line_number |-> 5]

\* C23: str_replace_editor in mode create, on a path the sandbox accepts:
\* when the file exists the result is the already-exists error and the file
\* system is unchanged; when it does not exist the file is created with
\* new_str as its content and nothing else changes.
C23_CreateNeverOverwrites ==
    (/\ pc = "sandbox" /\ pending # <<>>
     /\ pending[1].name = "str_replace_editor"
     /\ pending[1].command = "create"
     /\ tool_results[1].raised = "")
    => LET q == pending[1].path
       IN  IF ws_at_response[q].exists
           THEN /\ tool_results[1].content = <<"Error: File already exists">>
                /\ ws = ws_at_response
           ELSE /\ tool_results[1].content = <<"File created">>
                /\ ws = [ws_at_response EXCEPT ![q] = File(pending[1].new_str)]

\* create was asked for a file that exists: the error came back and the
\* file still has its content
C23_Witness ==
    /\ pc = "sandbox"
    /\ pending # <<>>
    /\ pending[1].name = "str_replace_editor"
    /\ pending[1].command = "create"
    /\ pending[1].path = NotePath
    /\ pending[1].new_str = <<"c">>
    /\ ws_at_response[NotePath] = File(<<"a", "b">>)
    /\ ws[NotePath] = File(<<"a", "b">>)
    /\ tool_results[1].content = <<"Error: File already exists">>

\* C24: when run_loop has returned, total_tokens of its summary is the sum
\* of the input and output tokens of every model call of the run, the calls
\* made before a rotation included.
C24_TotalTokensIsCumulative ==
    pc = "finished" => summary.total_tokens = tokens_used

\* C25: when run_loop has returned from a run of max_iterations >= 1,
\* completed of its summary is true exactly when the run ended with a session
\* of outcome complete, on whichever iteration that session ran.
C25_CompletedIffComplete ==
    (pc = "finished" /\ max_iterations >= 1)
    => (summary.completed <=> result.action = "complete")

\* C26: get_usage_percentage() is current_tokens / threshold_tokens * 100,
\* taken of the rotation threshold and not of max_context, so that it is at
\* least 100 exactly when should_rotate() holds.
C26_UsageIsOfThreshold ==
    pc = "guard" =>
       LET usage == GetUsagePercentage(current_tokens)
       IN  /\ usage.num = current_tokens * 100
           /\ usage.den = guard.threshold_tokens
           /\ usage.num >= 100 * usage.den <=> ShouldRotate(current_tokens)

\* the guard of the default configuration at 100,000 tokens, reached from
\* 99,999: the usage is 100 per cent and should_rotate() holds
C26_Witness ==
    /\ pc = "guard"
    /\ guard.max_context = 1000000
    /\ model_calls = 2
    /\ current_tokens = 100000
    /\ GetUsagePercentage(current_tokens).num = 100 * GetUsagePercentage(current_tokens).den
    /\ ShouldRotate(current_tokens)

\* a git_commit call has returned
GitCommitReturned ==
    pc = "sandbox" /\ pending # <<>> /\ pending[1].name = "git_commit"

\* C27 as stated: git_commit returns a success flag and a commit identifier,
\* and the identifier is the short commit id when the commit succeeded and
\* null when it failed.
C27_ShaWheneverCommitted ==
    GitCommitReturned
    => LET out == tool_results[1].content
       IN  /\ DOMAIN out = {"success", "sha"}
           /\ out.success <=> tool_results[1].commit = "committed"
           /\ out.sha = (IF out.success THEN ShortSha ELSE Null)

\* C27, amended: git_commit returns a success flag and a commit identifier;
\* success tells whether the commit was made; the identifier is null when the
\* commit failed, the short commit id when the commit succeeded and the id
\* could be read, and null when it could not; a non-null identifier implies
\* success.
C27_ShaImpliesSuccess ==
    GitCommitReturned
    => LET out == tool_results[1].content
       IN  /\ DOMAIN out = {"success", "sha"}
           /\ out.success <=> tool_results[1].commit = "committed"
           /\ ~out.success => out.sha = Null
           /\ (out.success /\ tool_results[1].rev_parse = "printed") => out.sha = ShortSha
           /\ (out.success /\ tool_results[1].rev_parse = "failed") => out.sha = Null
           /\ out.sha # Null => out.success

\* the commit was made and its id could not be read: success with a null id
C27_Witness ==
    /\ GitCommitReturned
    /\ tool_results[1].commit = "committed"
    /\ tool_results[1].rev_parse = "failed"
    /\ tool_results[1].content = [success |-> TRUE, sha |-> Null]

\* C28: an interrupt takes effect only between loop iterations and never in
\* the middle of a tool call: the step that interrupts the run starts after
\* execute_step has returned (or before the first iteration) and leaves the
\* workspace as the last completed tool call left it.
C28_InterruptOnlyBetweenIterations ==
    [][pc' = "interrupted"
       => /\ pc \in {"run_loop", "step_returned"}
          /\ ws' = ws]_vars

\* an interrupt has cut a write_file short: the file is left empty, a state
\* no completed tool call produced
C28_InterruptedInWrite ==
    /\ pc = "interrupted"
    /\ pending # <<>>
    /\ NextCall(pending).name = "write_file"
    /\ ws[NextCall(pending).path] = File(<<>>)
    /\ ws # ExecuteTool(agent, ws_at_response, NextCall(pending)).ws
    /\ ws # ws_at_response

\* the planner's loop was left at its cap: every response, the last one
\* included, carried tool calls and all of them were executed
PlannerExhausted ==
    /\ pc = "plan_done"
    /\ iteration = MaxPlannerIterations
    /\ response.tool_uses # <<>>
    /\ Len(tool_results) = Len(response.tool_uses)

\* C29: a planner session that uses all its iterations without the model
\* ending its turn is not reported as success by run() of either planner.
C29_ExhaustedPlannerIsNotSuccess ==
    PlannerExhausted => ~result.success

\* C30: a worker session never reports outcome complete when the checklist
\* file does not exist: when execute_step of either worker has returned and
\* instructions/plan.md is missing, the result is not complete.
C30_NoCompleteWithoutChecklist ==
    (pc = "step_returned" /\ ~ws[PlanPath].exists) => result.action # "complete"

\* the 1-based numbers of the lines that are checkbox tasks, checked or not,
\* at any indentation
TaskLines(lines) ==
    {i \in 1..Len(lines) : IsCheckboxLine(lines[i]) /\ TaskMatch(lines[i])}

\* the pairs <<k, t>> such that task t of returned phase k was read from the
\* line of 0-based index n
Reports(phases, n) ==
    {kt \in UNION {{<<k, t>> : t \in 1..Len(phases[k].tasks)} : k \in 1..Len(phases)} :
        phases[kt[1]].tasks[kt[2]].line_number = n}

\* C31: every checkbox task line of a checklist document appears exactly once
\* in the phases returned by parse_checklist, no task line is dropped and
\* none is reported twice, also when a task precedes the first phase header
\* or a line starting with "### Phase" does not match the header pattern.
C31_EveryTaskLineParsedOnce ==
    (pc = "checklist" /\ ws[PlanPath].exists)
    => LET lines  == Split(ws[PlanPath].text)
           phases == ParsePhases(ws[PlanPath].text)
       IN  \A i \in TaskLines(lines) : Cardinality(Reports(phases, i - 1)) = 1

\* an initial document whose only line is a task without a phase header
C31_TaskBeforeHeader ==
    /\ pc = "checklist"
    /\ ws[PlanPath].text = DocNoHeader
    /\ ParsePhases(ws[PlanPath].text) = <<>>

\* the turns start with a user turn and no two neighbours have the same role
Alternates(hist) ==
    /\ hist # <<>> => hist[1].role = "user"
    /\ \A i \in 1..(Len(hist) - 1) : hist[i].role # hist[i + 1].role

\* C32: in WorkerAgent the conversation_history starts with a user turn and
\* strictly alternates user and assistant turns after any sequence of model
\* responses, and the model is never called with a history whose last turn is
\* an assistant turn.
C32_HistoryAlternates ==
    (agent = "claude" /\ pc \in WorkerPcs)
    => /\ Alternates(history)
       /\ pc = "chat" => (history # <<>> /\ history[Len(history)].role = "user")

\* the 1-based numbers of the lines that are checked tasks
CheckedLines(lines) ==
    {i \in TaskLines(lines) : Head(LStrip(lines[i])) = CB1}

\* C33: update_checklist never loses completed work: every task line that is
\* checked before a call, successful or failed, is still present and checked
\* after it (a commit suffix may have been added to it), and the number of
\* checked task lines does not go down.
C33_CheckedTasksOnlyGrow ==
    [][(pc = "checklist" /\ ws[PlanPath].exists)
       => LET before == Split(ws[PlanPath].text)
              after  == Split(ws'[PlanPath].text)
          IN  /\ ws'[PlanPath].exists
              /\ \A i \in CheckedLines(before) :
                    \E j \in CheckedLines(after) :
                        StartsWith(after[j], RStrip(before[i]))
              /\ Cardinality(CheckedLines(after)) >= Cardinality(CheckedLines(before))]_vars

\* C34: for every checklist document, next_task of parse_checklist is None if
\* and only if check_all_tasks_complete returns true.
C34_NoNextTaskIffAllComplete ==
    (pc = "checklist" /\ ws[PlanPath].exists)
    => (NextTask(ws[PlanPath].text) = NoTask
        <=> CheckAllTasksComplete(ws[PlanPath].text))

\* the tools each planner declares to the model
PlannerDeclaredTools(a) ==
    IF a = "claude" THEN {"write_file", "read_file"} ELSE {"write_file"}

\* C35: a planner session executes only tools that were declared to the model
\* for that session; a tool call naming any other tool yields an error result
\* and has no effect on the workspace.
C35_PlannerRunsDeclaredToolsOnly ==
    [][(pc = "plan_tools" /\ pending # <<>>
        /\ NextCall(pending).name \notin PlannerDeclaredTools(agent))
       => /\ ws' = ws
          /\ Len(tool_results') = Len(tool_results) + 1
          /\ StartsWith(tool_results'[Len(tool_results')].content,
                        <<"Error: Unknown tool">>)]_vars

\* the planner's tool call being executed is a write_file of exactly
\* instructions/plan.md that succeeds and leaves its content in the file
PlanActuallyWritten ==
    /\ pc = "plan_tools" /\ pending # <<>>
    /\ NextCall(pending).name = "write_file"
    /\ NextCall(pending).path = PlanPath
    /\ ws'[PlanPath] = File(NextCall(pending).text)
    /\ Len(tool_results') = Len(tool_results) + 1
    /\ tool_results'[Len(tool_results')].content = <<"File written">>

\* C36: run() of either planner returns success only if, during this run, a
\* write_file tool call actually wrote instructions/plan.md (the call did not
\* fail and targeted exactly that path) and the file holds at least
\* MinChecklistLength characters: success is returned only with the
\* checklist_created flag set and a file that long, and the flag is set only
\* by such a call.
C36_SuccessOnlyAfterPlanWritten ==
    [][/\ (pc' = "plan_done" /\ result'.success)
            => /\ checklist_created'
               /\ ws'[PlanPath].exists
               /\ TextLen(ws'[PlanPath].text) >= MinChecklistLength
       /\ (checklist_created' /\ ~checklist_created) => PlanActuallyWritten]_vars

\* C37: once a session returns should_continue false (outcome complete,
\* gutter or error), run_loop starts no further session: its next step ends
\* the run, and no session is started, no model call made, no token spent and
\* no tool call executed by that step; a finished run takes no further step.
C37_NoSessionAfterStop ==
    [][/\ (pc = "step_returned" /\ ~result.should_continue)
            => /\ pc' = "finished"
               /\ sessions' = sessions
               /\ iteration' = iteration
               /\ model_calls' = model_calls
               /\ tokens_used' = tokens_used
               /\ tool_results' = tool_results
               /\ history' = history
               /\ ws' = ws
       /\ pc = "finished" => vars' = vars]_vars

\* a run of several sessions allowed that ended after its first session on
\* the stuck marker
C37_Witness ==
    /\ pc = "finished"
    /\ result = ResultGutter
    /\ ~result.should_continue
    /\ sessions = 1
    /\ max_iterations > 1

\* the checklist text has no unchecked checkbox line, whatever the indentation
NoOpenTask(content) ==
    LET lines == Split(content)
    IN  \A i \in 1..Len(lines) : ~StartsWith(Strip(lines[i]), <<CB0>>)

\* C38: when the checklist is already complete at the start of a session,
\* execute_step returns outcome complete without calling the model and
\* without executing any tool, leaving the context guard's token count and
\* the workspace unchanged (the count is the one run_loop handed over: zero
\* after a rotation, the old count otherwise).
C38_CompleteChecklistSkipsModel ==
    [][(/\ pc \in {"run_loop", "step_returned"}
        /\ sessions' = sessions + 1
        /\ ws[PlanPath].exists
        /\ NoOpenTask(ws[PlanPath].text))
       => /\ pc' = "step_returned"
          /\ result' = ResultAlreadyComplete
          /\ result'.action = "complete" /\ ~result'.should_continue
          /\ model_calls' = 0
          /\ tokens_used' = tokens_used
          /\ current_tokens' = (IF rotation_count' = rotation_count
                                THEN current_tokens ELSE 0)
          /\ tool_results' = tool_results
          /\ pending' = pending
          /\ ws' = ws]_vars

\* a second session found the checklist complete, which the tool calls of the
\* first session had finished
C38_Witness ==
    /\ pc = "step_returned"
    /\ result = ResultAlreadyComplete
    /\ sessions = 2
    /\ model_calls = 0
    /\ ws[PlanPath].exists
    /\ NoOpenTask(ws[PlanPath].text)

\* C39: in NeMoWorkerAgent.run_loop the rotations value of the run summary
\* equals the number of times ContextGuard.reset() was called during the run,
\* and the iterations value equals the number of sessions started.
C39_SummaryCountsRotationsAndSessions ==
    (agent = "nemo" /\ pc = "finished")
    => /\ summary.rotations = guard_resets
       /\ summary.rotations = rotation_count
       /\ summary.iterations = sessions
       /\ summary.iterations = iteration

\* a NeMo run of two sessions that rotated after each of them
C39_Witness ==
    /\ agent = "nemo"
    /\ pc = "finished"
    /\ sessions = 2
    /\ guard_resets = 2
    /\ summary.rotations = 2
    /\ summary.iterations = 2

====
